---- MODULE Spec2Model ----
(***************************************************************************)
(* A model of the ADR slot-reservation application: the hosted tables      *)
(* (slots, reservations, users) with their triggers and row-level-security *)
(* policies, the browser-side data helpers (lib/supabase, lib/userService),*)
(* the booking page's submit handler, the confirmation e-mail hand-off and *)
(* the in-memory rate limiter.                                             *)
(***************************************************************************)
EXTENDS Integers, Sequences, FiniteSets, TLC

VARIABLES
    \* ---- the hosted database (supabase/init.sql, supabase/schema.sql)
    slots,          \* table slots: slot id -> row
    reservations,   \* table reservations: a set of rows
    users,          \* table users: the e-mail addresses registered (email is UNIQUE)
    nextResId,      \* the id the next reservation row gets
    \* ---- the deployment
    adminConfigured,\* lib/supabase: adminSupabase is not null (VITE_SUPABASE_SERVICE_KEY set)
    schema,         \* which script created the tables: "init.sql" (triggers) or "schema.sql"
    anonAccess,     \* what a select with the anonymous key meets: "rls" or "denied" (42501)
    faultsLeft,     \* backend calls that may still fail for a transient reason
    \* ---- one booking page per browser client (pages/BookingPage.jsx)
    pc,             \* where the page's handleSubmit run is waiting
    selectedSlot,   \* useState: selectedSlot (a slot id or Null)
    runSlot,        \* the selectedSlot the running handleSubmit closed over
    submitting,     \* useState: submitting
    submitError,    \* useState: submitError (a message tag or Null)
    submitSuccess,  \* useState: submitSuccess
    confirmedBooking, \* useState: confirmedBooking
    isHumanVerified,\* useState: isHumanVerified
    hvVerified,     \* HumanVerification component: isVerified
    formData,       \* useState: formData
    emailState,     \* the confirmation e-mail of the page's booking
    calendarSlots,  \* Calendar.jsx useState: slots, with the range they were fetched for
    challenge,      \* HumanVerification component: challenge (NoChallenge while unmounted)
    \* ---- the rate limiter (lib/humanVerification.js), one module instance per page
    now,            \* Date.now() of the browser, in milliseconds
    attemptStore,   \* const attemptStore = new Map()
    \* ---- history variables, read by the properties only
    lastCall,       \* the rate-limiter call made last, with what it returned
    recorded,       \* the timestamps recordAttempt stored, per identifier
    created,        \* the page's createReservation call has returned a reservation
    lastSubmit,     \* how the page's last finished handleSubmit run ended
    inserts,        \* reservation inserts the page's running submission has issued
    runs,           \* handleSubmit runs the page has started
    lastCancel,     \* the cancellation completed last
    lastVerify,     \* the verifyChallenge call made last, with what it returned
    \* ---- the administrator's browser (lib/auth, part_003)
    settings,       \* table settings: the row with key 'admin_password_hash'
    adminToken,     \* localStorage['admin_token'] (a token or NoToken)
    lastLogin,      \* the loginAdmin call made last, with what it returned
    \* ---- booking references (lib/emailService)
    refInput,       \* what the next call reads: new Date() and its Math.random() draws
    lastReference,  \* the generateBookingReference call made last, with its value
    \* ---- the administrator's page (AdminPage, part_008)
    deletePc,       \* the deleteReservation call in progress: its step and the row fetched
    lastDelete,     \* the deleteReservation call that ended last, with how it ended
    \* ---- the realtime subscription of the calendar (channel 'public:slots')
    channel,        \* payloads published and not yet delivered to the calendar
    published,      \* the number of payloads published so far
    pendingFetch,   \* per calendar, the answers of getAvailableSlots not yet received
    \* ---- clicks on the disabled Confirm Booking button
    lateClicks,     \* per page, the clicks made while the button was disabled
    \* ---- the Security tab of the administrator (components/Tabs.jsx)
    adminTab,       \* the page load showing the tab: a booking client's or its own
    adminAttemptStore, \* const attemptStore = new Map() of the tab's own page load
    \* ---- the calendar's lead time (lib/calendarUtils)
    tzOffset,       \* local time minus UTC of the browser, in milliseconds
    lastDisabled,   \* the isSlotDisabled call made last, with what it returned
    \* ---- the administrator's page (AdminPage, part_008) and its login
    adminPage,      \* useState: isCheckingAuth, isAuthenticated, firstTimeSetup, formError
    setupRun,       \* the handleSetupSubmit run last started and its two backend requests
    lastAuth,       \* the isAdminAuthenticated call made last, with what it returned
    \* ---- the createReservation call of a page and the quick-book path
    callStore,      \* per page, the store as the running createReservation call found it
    bookingRef,     \* per page, the reference its last booking stored, showed and mailed
    quickBookSlot   \* per page, sessionStorage item 'quickBookSlot'

dbVars == <<slots, reservations, users, nextResId>>
\* What no handler of the booking page touches, and the HumanVerification
\* component's own state.
loginVars == <<settings, adminToken, lastLogin>>
refVars == <<refInput, lastReference>>
delVars == <<deletePc, lastDelete>>
rtVars == <<channel, published, pendingFetch>>
clickVars == <<lateClicks>>
secVars == <<adminTab, adminAttemptStore>>
leadVars == <<tzOffset, lastDisabled>>
consoleVars == <<adminPage, setupRun, lastAuth>>
bookVars == <<callStore, bookingRef, quickBookSlot>>
auxVars == <<loginVars, refVars, delVars, rtVars, clickVars, secVars, leadVars,
             consoleVars, bookVars>>
\* The groups of auxVars other than the one an action writes.
notLogin ==
    <<refVars, delVars, rtVars, clickVars, secVars, leadVars, consoleVars, bookVars>>
notRef ==
    <<loginVars, delVars, rtVars, clickVars, secVars, leadVars, consoleVars, bookVars>>
notDel ==
    <<loginVars, refVars, rtVars, clickVars, secVars, leadVars, consoleVars, bookVars>>
notRt ==
    <<loginVars, refVars, delVars, clickVars, secVars, leadVars, consoleVars, bookVars>>
notClick ==
    <<loginVars, refVars, delVars, rtVars, secVars, leadVars, consoleVars, bookVars>>
notSec ==
    <<loginVars, refVars, delVars, rtVars, clickVars, leadVars, consoleVars, bookVars>>
notLead ==
    <<loginVars, refVars, delVars, rtVars, clickVars, secVars, consoleVars, bookVars>>
\* The groups of auxVars the administrator's page does not write.
notConsole == <<refVars, delVars, rtVars, clickVars, secVars, leadVars, bookVars>>
notBook ==
    <<loginVars, refVars, delVars, rtVars, clickVars, secVars, leadVars, consoleVars>>
compRest == <<lastVerify, auxVars>>
compVars == <<challenge, compRest>>
\* compVars without what a createReservation call records.
callRest == <<challenge, lastVerify, notBook, quickBookSlot>>
cfgVars == <<adminConfigured, schema, anonAccess>>
pageVars == <<pc, selectedSlot, runSlot, submitting, submitError, submitSuccess,
              confirmedBooking, isHumanVerified, hvVerified, formData, calendarSlots,
              compVars, emailState>>
histVars == <<created, lastSubmit, inserts, runs, lastCancel>>
rateVars == <<now, attemptStore, lastCall, recorded>>
pageCore == <<pc, selectedSlot, runSlot, submitting, submitError, submitSuccess,
              confirmedBooking, isHumanVerified, hvVerified, formData, calendarSlots,
              emailState>>
\* The booking application without the administrator's browser.
bookingVars == <<dbVars, cfgVars, faultsLeft, rateVars, histVars, pageCore,
                 challenge, lastVerify>>

vars == <<slots, reservations, users, nextResId, adminConfigured, schema,
          anonAccess, faultsLeft, runs,
          pc, selectedSlot, runSlot, submitting, submitError, submitSuccess,
          confirmedBooking, isHumanVerified, hvVerified, formData, calendarSlots,
          compVars, emailState,
          now, attemptStore, lastCall, recorded, created, lastSubmit, inserts, lastCancel>>

Null == "null"

\* The browser clients, each with one booking page.
Clients == {"c1", "c2"}

(***************************************************************************)
(* Bounds of the model.                                                    *)
(***************************************************************************)
StepsPerWindow == 2     \* clock ticks per RATE_LIMIT_WINDOW
MaxSteps == 2           \* clock ticks explored
MaxRecords == 6         \* recordAttempt calls explored (all identifiers)

(***************************************************************************)
(* The rate limiter (src/lib/humanVerification.js, lines 123-224).         *)
(***************************************************************************)
RATE_LIMIT_WINDOW == 60 * 60 * 1000
MAX_ATTEMPTS == 5

TimeStep == RATE_LIMIT_WINDOW \div StepsPerWindow
MaxTime == MaxSteps * TimeStep

\* The identifiers tried; "" is the falsy identifier (!identifier).
Identifiers == {"", "a@lab", "b@lab"}

\* attemptStore.get(identifier) when the map has no such key.
NoEntry == [present |-> FALSE, attempts |-> <<>>, lastReset |-> 0]

Falsy(identifier) == identifier = ""

\* attemptStore.get(identifier) || { attempts: [], lastReset: now }
GetOrDefault(store, identifier, t) ==
    IF store[identifier].present
    THEN store[identifier]
    ELSE [present |-> TRUE, attempts |-> <<>>, lastReset |-> t]

\* Array.prototype.filter: the elements satisfying keep, in order.
RECURSIVE FilterSeq(_, _, _)
FilterSeq(s, t, window) ==
    IF s = <<>> THEN <<>>
    ELSE IF t - Head(s) < window
         THEN <<Head(s)>> \o FilterSeq(Tail(s), t, window)
         ELSE FilterSeq(Tail(s), t, window)

\* userAttempts.attempts.filter(timestamp => now - timestamp < RATE_LIMIT_WINDOW)
validAttempts(userAttempts, t) == FilterSeq(userAttempts.attempts, t, RATE_LIMIT_WINDOW)

\* The entry checkRateLimit stores back (lines 146-170).
CheckedEntry(store, identifier, t) ==
    LET userAttempts == GetOrDefault(store, identifier, t)
    IN  IF t - userAttempts.lastReset >= RATE_LIMIT_WINDOW
        THEN [userAttempts EXCEPT !.lastReset = t, !.attempts = <<>>]
        ELSE [userAttempts EXCEPT !.attempts = validAttempts(userAttempts, t)]

\* isLimited (line 162).
IsLimited(store, identifier, t) ==
    IF Falsy(identifier) THEN FALSE
    ELSE Len(CheckedEntry(store, identifier, t).attempts) >= MAX_ATTEMPTS

\* The store after checkRateLimit(identifier).
StoreAfterCheck(store, identifier, t) ==
    IF Falsy(identifier) THEN store
    ELSE [store EXCEPT ![identifier] = CheckedEntry(store, identifier, t)]

\* A recordAttempt that keeps one list of timestamps for all identifiers: the
\* store the per-identifier property has to tell apart from the real one.
StoreAfterRecordShared(store, identifier, t) ==
    IF Falsy(identifier) THEN store
    ELSE [i \in DOMAIN store |->
             IF Falsy(i) THEN store[i]
             ELSE LET userAttempts == GetOrDefault(store, i, t)
                  IN  [userAttempts EXCEPT !.attempts = Append(userAttempts.attempts, t)]]

\* The store after recordAttempt(identifier) (lines 184-195).
StoreAfterRecord(store, identifier, t) ==
    IF Falsy(identifier) THEN store
    ELSE LET userAttempts == GetOrDefault(store, identifier, t)
         IN  [store EXCEPT ![identifier] =
                 [userAttempts EXCEPT !.attempts = Append(userAttempts.attempts, t)]]

\* The store after clearRateLimit(identifier) (lines 220-224).
StoreAfterClear(store, identifier) ==
    IF Falsy(identifier) THEN store
    ELSE [store EXCEPT ![identifier] = NoEntry]

(***************************************************************************)
(* The rate limiter called directly, at arbitrary times, on one page.      *)
(***************************************************************************)
RatePage == "c1"

TotalRecorded == Len(recorded["a@lab"]) + Len(recorded["b@lab"])

checkRateLimit(identifier) ==
    /\ attemptStore' = [attemptStore EXCEPT
                           ![RatePage] = StoreAfterCheck(@, identifier, now)]
    /\ lastCall' = [op |-> "check", id |-> identifier, at |-> now,
                    limited |-> IsLimited(attemptStore[RatePage], identifier, now)]
    /\ UNCHANGED <<now, recorded>>
    /\ UNCHANGED <<dbVars, cfgVars, faultsLeft, pageVars, histVars>>

recordAttempt(identifier) ==
    /\ TotalRecorded < MaxRecords
    /\ attemptStore' = [attemptStore EXCEPT
                           ![RatePage] = StoreAfterRecord(@, identifier, now)]
    /\ recorded' = IF Falsy(identifier) THEN recorded
                   ELSE [recorded EXCEPT ![identifier] = Append(@, now)]
    /\ lastCall' = [op |-> "record", id |-> identifier, at |-> now, limited |-> FALSE]
    /\ UNCHANGED now
    /\ UNCHANGED <<dbVars, cfgVars, faultsLeft, pageVars, histVars>>

clearRateLimit(identifier) ==
    /\ attemptStore' = [attemptStore EXCEPT
                           ![RatePage] = StoreAfterClear(@, identifier)]
    /\ recorded' = IF Falsy(identifier) THEN recorded
                   ELSE [recorded EXCEPT ![identifier] = <<>>]
    /\ lastCall' = [op |-> "clear", id |-> identifier, at |-> now, limited |-> FALSE]
    /\ UNCHANGED now
    /\ UNCHANGED <<dbVars, cfgVars, faultsLeft, pageVars, histVars>>

\* Time passes between two calls.
Tick ==
    /\ now + TimeStep <= MaxTime
    /\ now' = now + TimeStep
    /\ UNCHANGED <<attemptStore, lastCall, recorded>>
    /\ UNCHANGED <<dbVars, cfgVars, faultsLeft, pageVars, histVars>>

(***************************************************************************)
(* The hosted database: tables, row-level security and triggers.           *)
(***************************************************************************)
MaxReservations == 3    \* reservation rows inserted in one behaviour
MaxRuns == 2            \* handleSubmit runs started on one page
MaxFaults == 1          \* backend calls failing for a transient reason

\* A backend call answers (TRUE) or fails for a transient reason (FALSE).
Answers == IF faultsLeft > 0 THEN BOOLEAN ELSE {TRUE}
Fault(ok) == faultsLeft' = IF ok THEN faultsLeft ELSE faultsLeft - 1

SlotIds == {"s1", "s2"}

HourMs == 60 * 60 * 1000

\* The slots an administrator created: one-hour windows, all free.
InitSlots ==
    [s \in SlotIds |->
        [exists |-> TRUE, is_available |-> TRUE,
         start_time |-> (IF s = "s1" THEN 2 ELSE 3) * HourMs,
         end_time |-> (IF s = "s1" THEN 3 ELSE 4) * HourMs]]

\* A reservation is active unless it was cancelled (status confirmed or pending).
Active(r) == r.status # "cancelled"
ActiveReservations == {r \in reservations : Active(r)}
ActiveOn(s) == {r \in ActiveReservations : r.slot_id = s}

\* Policy "Allow public read access to available slots": what a SELECT with the
\* anonymous key sees of table slots.
AnonSelectsSlot(s) == slots[s].exists /\ slots[s].is_available

\* Trigger check_slot_availability_trigger (BEFORE INSERT ON reservations): the
\* insert raises 'Slot is not available'. Only init.sql creates the trigger.
InsertRaises(s) ==
    schema = "init.sql" /\ ~(slots[s].exists /\ slots[s].is_available)

\* Trigger update_slot_availability_trigger (AFTER INSERT ON reservations), which
\* runs in the insert's own statement. Only init.sql creates the trigger.
SlotsAfterInsert(s) ==
    IF schema = "init.sql" THEN [slots EXCEPT ![s].is_available = FALSE] ELSE slots

\* The row createReservation inserts (part_005 lines 64-72).
ReservationRow(s, email) ==
    [id |-> nextResId, slot_id |-> s, user_email |-> email, status |-> "confirmed"]

(***************************************************************************)
(* lib/supabase: verifySlotAvailability. The values the call can produce:  *)
(* "true", "false", or a thrown error ("throw42501": err.code = '42501').   *)
(***************************************************************************)
verifySlotAvailability(s, ok) ==
    IF anonAccess = "rls"
    THEN \* the anonymous select answers: .single() fails when no row is visible
         IF ok /\ AnonSelectsSlot(s) THEN "true" ELSE "throwOther"
    ELSE \* error.code === '42501': the privileged client reads the row, if there is one
         IF ~adminConfigured THEN "throw42501"
         ELSE IF ~ok THEN "throwOther"
         ELSE IF slots[s].is_available THEN "true" ELSE "false"

\* currentHour.setMinutes(0, 0, 0): the time t with the minutes, seconds and
\* milliseconds of its local time set to zero.
currentHour(t) == t - ((t + tzOffset) % HourMs)

\* oneHourFromNow.setHours(oneHourFromNow.getHours() + 1), on a day without a
\* change of the local time's offset.
oneHourFromNow(t) == currentHour(t) + HourMs

\* calendarUtils.isSlotDisabled: slotStart <= oneHourFromNow.
isSlotDisabled(startTime, t) == startTime <= oneHourFromNow(t)

\* No isSlotDisabled call was made yet.
NoDisabled == [called |-> FALSE, startTime |-> 0, at |-> 0, result |-> FALSE]

\* validationUtils.validateBookingForm: e-mail and name are required.
validateBookingForm(fd) == fd.email # "" /\ fd.name # ""

\* lib/supabase getUserReservationCount: the number of active reservations of an
\* e-mail address, or a failure.
getUserReservationCount(email, ok) ==
    IF ok
    THEN [success |-> TRUE,
          count |-> Cardinality({r \in ActiveReservations : r.user_email = email})]
    ELSE [success |-> FALSE, count |-> 0]

(***************************************************************************)
(* lib/supabase: getAvailableSlots (lines 20-51), and the Calendar that    *)
(* keeps its result (components/calendar/Calendar.jsx lines 22-36).        *)
(***************************************************************************)
\* The instants a date range may start or end at.
QueryTimes == {0, 2 * HourMs, 3 * HourMs, 4 * HourMs}

\* .gte('start_time', startDate).lte('end_time', endDate)
InRange(s, startDate, endDate) ==
    slots[s].exists /\ slots[s].start_time >= startDate /\ slots[s].end_time <= endDate

\* .order('start_time'): the rows of the slots in S, earliest first.
RECURSIVE OrderByStartTime(_)
OrderByStartTime(S) ==
    IF S = {} THEN <<>>
    ELSE LET first == CHOOSE s \in S : \A o \in S : slots[s].start_time <= slots[o].start_time
         IN  <<[id |-> first, is_available |-> slots[first].is_available]>>
             \o OrderByStartTime(S \ {first})

\* What getAvailableSlots returns (data, a sequence of rows) unless it throws.
getAvailableSlots(startDate, endDate, ok) ==
    IF anonAccess = "rls"
    THEN [throws |-> ~ok,
          data |-> OrderByStartTime({s \in SlotIds : InRange(s, startDate, endDate)
                                                     /\ AnonSelectsSlot(s)})]
    ELSE [throws |-> ~(adminConfigured /\ ok),
          data |-> OrderByStartTime({s \in SlotIds : InRange(s, startDate, endDate)})]

\* The Calendar before its first fetch: useState([]).
NoFetch == [startDate |-> 0, endDate |-> 0, rows |-> <<>>]

\* Calendar fetchSlots(startDate, endDate): setSlots(slotsData), or the error
\* message with the slots it had.
fetchSlots(c, startDate, endDate) ==
    /\ startDate <= endDate
    /\ \E ok \in Answers :
         LET slotsData == getAvailableSlots(startDate, endDate, ok)
         IN  /\ Fault(ok)
             /\ calendarSlots' =
                    IF slotsData.throws THEN calendarSlots
                    ELSE [calendarSlots EXCEPT ![c] =
                             [startDate |-> startDate, endDate |-> endDate,
                              rows |-> slotsData.data]]
    /\ UNCHANGED <<pc, selectedSlot, runSlot, submitting, submitError, submitSuccess,
                   confirmedBooking, isHumanVerified, hvVerified, formData, compVars,
                   emailState>>
    /\ UNCHANGED <<dbVars, cfgVars, rateVars, histVars>>

(***************************************************************************)
(* The realtime subscription: subscribeToSlots (lib/supabase.js lines      *)
(* 218-233) hands every change of table slots to the callback of the       *)
(* Calendar (components/calendar/Calendar.jsx lines 86-118), in the order  *)
(* the changes were made.  A payload carries the event type, the id of the *)
(* row and, of payload.new, the field the calendar's rows carry.           *)
(***************************************************************************)
MaxEvents == 3          \* changes of table slots published to the channel

Payload(eventType, s, is_available) ==
    [eventType |-> eventType, id |-> s, is_available |-> is_available]

Publish(payload) ==
    /\ published < MaxEvents
    /\ channel' = Append(channel, payload)
    /\ published' = published + 1
    /\ UNCHANGED pendingFetch

\* An UPDATE of a slot row (updateSlot, part_005 lines 325-339;
\* resetSlotAvailability, lines 283-297) and its publication.
postgres_changes_UPDATE(s, is_available) ==
    /\ adminConfigured /\ slots[s].exists
    /\ slots' = [slots EXCEPT ![s].is_available = is_available]
    /\ Publish(Payload("UPDATE", s, is_available))
    /\ UNCHANGED <<reservations, users, nextResId>>
    /\ UNCHANGED <<cfgVars, faultsLeft, rateVars, histVars, pageCore, challenge, lastVerify>>
    /\ UNCHANGED notRt

\* An INSERT of a slot row (createSlot, part_005 lines 304-318; the column
\* is_available defaults to true) and its publication.
postgres_changes_INSERT(s) ==
    /\ adminConfigured /\ ~slots[s].exists
    /\ slots' = [slots EXCEPT ![s].exists = TRUE, ![s].is_available = TRUE]
    /\ Publish(Payload("INSERT", s, TRUE))
    /\ UNCHANGED <<reservations, users, nextResId>>
    /\ UNCHANGED <<cfgVars, faultsLeft, rateVars, histVars, pageCore, challenge, lastVerify>>
    /\ UNCHANGED notRt

\* A DELETE of a slot row (deleteSlot, part_005 lines 346-358; reservations.slot_id
\* is ON DELETE CASCADE) and its publication; payload.old carries the id.
postgres_changes_DELETE(s) ==
    /\ adminConfigured /\ slots[s].exists
    /\ slots' = [slots EXCEPT ![s].exists = FALSE, ![s].is_available = FALSE]
    /\ reservations' = {r \in reservations : r.slot_id # s}
    /\ Publish(Payload("DELETE", s, FALSE))
    /\ UNCHANGED <<users, nextResId>>
    /\ UNCHANGED <<cfgVars, faultsLeft, rateVars, histVars, pageCore, challenge, lastVerify>>
    /\ UNCHANGED notRt

\* currentSlots.map(slot => slot.id === payload.new.id ? {...slot, ...payload.new} : slot)
MapUpdate(rows, payload) ==
    [i \in DOMAIN rows |->
        IF rows[i].id = payload.id
        THEN [rows[i] EXCEPT !.is_available = payload.is_available]
        ELSE rows[i]]

\* currentSlots.filter(slot => slot.id !== payload.old.id)
RECURSIVE FilterOut(_, _)
FilterOut(rows, id) ==
    IF rows = <<>> THEN <<>>
    ELSE IF Head(rows).id = id THEN FilterOut(Tail(rows), id)
         ELSE <<Head(rows)>> \o FilterOut(Tail(rows), id)

\* The callback of lines 88-112, applied to the calendar's list.
ApplyPayload(rows, payload) ==
    IF payload.eventType = "UPDATE" THEN MapUpdate(rows, payload)
    ELSE IF payload.eventType = "INSERT"
         THEN Append(rows, [id |-> payload.id, is_available |-> payload.is_available])
         ELSE FilterOut(rows, payload.id)

\* The channel delivers its oldest payload to the calendar of client c.
Calendar_onSlotChange(c) ==
    /\ channel # <<>>
    /\ calendarSlots' = [calendarSlots EXCEPT
                            ![c].rows = ApplyPayload(calendarSlots[c].rows, Head(channel))]
    /\ channel' = Tail(channel)
    /\ UNCHANGED <<published, pendingFetch>>
    /\ UNCHANGED <<pc, selectedSlot, runSlot, submitting, submitError, submitSuccess,
                   confirmedBooking, isHumanVerified, hvVerified, formData, emailState>>
    /\ UNCHANGED <<dbVars, cfgVars, faultsLeft, rateVars, histVars, challenge, lastVerify>>
    /\ UNCHANGED notRt

MaxPending == 2         \* fetchSlots calls of one calendar waiting for their answer

\* fetchSlots (Calendar.jsx lines 22-36) up to its await: the database answers
\* getAvailableSlots with the rows it holds now; handleDatesSet (lines 120-129)
\* calls it for every range the calendar is moved to, the initial load too.
Calendar_fetchSlots(c, startDate, endDate) ==
    /\ startDate <= endDate
    /\ Cardinality(pendingFetch[c]) < MaxPending
    /\ \E ok \in Answers :
         LET slotsData == getAvailableSlots(startDate, endDate, ok)
         IN  /\ Fault(ok)
             /\ pendingFetch' = [pendingFetch EXCEPT ![c] = @ \cup
                    {[startDate |-> startDate, endDate |-> endDate,
                      throws |-> slotsData.throws, rows |-> slotsData.data]}]
    /\ UNCHANGED <<channel, published>>
    /\ UNCHANGED <<pageCore, challenge, lastVerify, notRt>>
    /\ UNCHANGED <<dbVars, cfgVars, rateVars, histVars>>

\* fetchSlots after its await: setSlots(slotsData), or the error message with
\* the slots the calendar had.
Calendar_fetchSlots_done(c) ==
    /\ \E answer \in pendingFetch[c] :
         /\ pendingFetch' = [pendingFetch EXCEPT ![c] = @ \ {answer}]
         /\ calendarSlots' =
                IF answer.throws THEN calendarSlots
                ELSE [calendarSlots EXCEPT ![c] =
                         [startDate |-> answer.startDate, endDate |-> answer.endDate,
                          rows |-> answer.rows]]
    /\ UNCHANGED <<channel, published>>
    /\ UNCHANGED <<pc, selectedSlot, runSlot, submitting, submitError, submitSuccess,
                   confirmedBooking, isHumanVerified, hvVerified, formData, emailState>>
    /\ UNCHANGED <<dbVars, cfgVars, faultsLeft, rateVars, histVars, challenge, lastVerify>>
    /\ UNCHANGED notRt

(***************************************************************************)
(* The human verification challenge (lib/humanVerification.js lines 1-121) *)
(* and the component that shows it (components/HumanVerification.jsx).     *)
(***************************************************************************)
StepsPerExpiry == 2       \* clock ticks per five minutes
MaxChallengeSteps == 3    \* clock ticks explored while a challenge is shown

fiveMinutes == 5 * 60 * 1000
ChallengeStep == fiveMinutes \div StepsPerExpiry

\* The challenges getRandomChallenge draws from: the sum of generateMathChallenge
\* and two of the questions of generateImageChallenge.
ChallengePool ==
    {[question |-> "What is 3 + 4?", answer |-> "7"],
     [question |-> "Select the number of circles in this image: ooo", answer |-> "3"],
     [question |-> "What shape is this? o", answer |-> "circle"]}

\* challenge.question.includes('What is')
IncludesWhatIs(question) == question = "What is 3 + 4?"

\* What the user typed: a text, typed in capitals or not, with spaces around it
\* or not.
UserAnswers ==
    [text : {"", "7", "3", "circle"}, upper : BOOLEAN, padded : BOOLEAN]

\* !userAnswer: the empty string.
NoAnswer(userAnswer) == userAnswer.text = "" /\ ~userAnswer.padded

HasLetters(text) == text = "circle"

\* userAnswer.trim() === challenge.answer (lines 34): capitals differ.
MathAnswerMatches(ch, userAnswer) ==
    userAnswer.text = ch.answer /\ ~(userAnswer.upper /\ HasLetters(userAnswer.text))

\* userAnswer.trim().toLowerCase() === challenge.answer.toLowerCase() (line 94)
ImageAnswerMatches(ch, userAnswer) == userAnswer.text = ch.answer

\* verifyMathChallenge (lines 21-39); it returns the bare false, which has no
\* success field, for a missing answer.
verifyMathChallenge(ch, userAnswer, t) ==
    IF NoAnswer(userAnswer) THEN [success |-> FALSE, error |-> "none"]
    ELSE IF t - ch.timestamp > fiveMinutes THEN [success |-> FALSE, error |-> "expired"]
    ELSE IF MathAnswerMatches(ch, userAnswer) THEN [success |-> TRUE, error |-> "none"]
    ELSE [success |-> FALSE, error |-> "incorrect"]

\* verifyImageChallenge (lines 81-99).
verifyImageChallenge(ch, userAnswer, t) ==
    IF NoAnswer(userAnswer) THEN [success |-> FALSE, error |-> "invalid"]
    ELSE IF t - ch.timestamp > fiveMinutes THEN [success |-> FALSE, error |-> "expired"]
    ELSE IF ImageAnswerMatches(ch, userAnswer) THEN [success |-> TRUE, error |-> "none"]
    ELSE [success |-> FALSE, error |-> "incorrect"]

\* A verification that does not look at the challenge's age: the function the
\* expiry property has to tell apart from the real one.
verifyChallengeAnyAge(ch, userAnswer, t) ==
    IF IncludesWhatIs(ch.question)
    THEN verifyMathChallenge(ch, userAnswer, ch.timestamp)
    ELSE verifyImageChallenge(ch, userAnswer, ch.timestamp)

\* verifyChallenge (lines 110-121), for a challenge that is not null.
verifyChallenge(ch, userAnswer, t) ==
    IF IncludesWhatIs(ch.question)
    THEN verifyMathChallenge(ch, userAnswer, t)
    ELSE verifyImageChallenge(ch, userAnswer, t)

\* useState(null): the component before its mount effect, or unmounted.
NoChallenge == [question |-> "none", answer |-> "", timestamp |-> 0]

NoVerify == [timestamp |-> 0, at |-> 0, correct |-> FALSE, success |-> FALSE,
             error |-> "none", by |-> "none"]

\* The component's mount effect and generateNewChallenge (HumanVerification.jsx
\* lines 18-29): getRandomChallenge() with timestamp Date.now().
generateNewChallenge(c, drawn) ==
    [challenge EXCEPT ![c] =
        [question |-> drawn.question, answer |-> drawn.answer, timestamp |-> now]]

\* The mount effect of the component, which the form shows with a selected slot.
HumanVerification_mount(c) ==
    /\ selectedSlot[c] # Null /\ ~submitSuccess[c] /\ challenge[c] = NoChallenge
    /\ \E drawn \in ChallengePool : challenge' = generateNewChallenge(c, drawn)
    /\ hvVerified' = [hvVerified EXCEPT ![c] = FALSE]
    /\ UNCHANGED <<pc, selectedSlot, runSlot, submitting, submitError, submitSuccess,
                   confirmedBooking, isHumanVerified, formData, calendarSlots,
                   compRest, emailState>>
    /\ UNCHANGED <<dbVars, cfgVars, faultsLeft, rateVars, histVars>>

\* The variant of the page's callback that takes every result for a success.
VerifiedFlagAlways(result) == TRUE

\* setIsHumanVerified(result.success) (BookingPage.jsx line 529)
VerifiedFlag(result) == result.success

\* The component's handleSubmit (HumanVerification.jsx lines 38-60) with the
\* page's onVerificationComplete (BookingPage.jsx lines 527-534).
HumanVerification_handleSubmit(c, answer) ==
    /\ selectedSlot[c] # Null /\ ~submitSuccess[c] /\ ~hvVerified[c]
    /\ challenge[c] # NoChallenge
    /\ answer.text # ""
    /\ LET result == verifyChallenge(challenge[c], answer, now)
       IN  /\ lastVerify' =
                [timestamp |-> challenge[c].timestamp, at |-> now,
                 correct |-> IF IncludesWhatIs(challenge[c].question)
                             THEN MathAnswerMatches(challenge[c], answer)
                             ELSE ImageAnswerMatches(challenge[c], answer),
                 success |-> result.success, error |-> result.error, by |-> c]
           /\ hvVerified' = [hvVerified EXCEPT ![c] = result.success]
           /\ isHumanVerified' = [isHumanVerified EXCEPT ![c] = VerifiedFlag(result)]
           /\ IF result.success
              THEN UNCHANGED <<challenge, submitError>>
              ELSE /\ \E drawn \in ChallengePool :
                        challenge' = generateNewChallenge(c, drawn)
                   /\ submitError' = [submitError EXCEPT ![c] =
                          IF result.error = "none" THEN @ ELSE "verification"]
    /\ UNCHANGED <<pc, selectedSlot, runSlot, submitting, submitSuccess,
                   confirmedBooking, formData, calendarSlots, emailState>>
    /\ UNCHANGED <<dbVars, cfgVars, faultsLeft, rateVars, histVars, auxVars>>

\* Time passes while the challenge is shown.
TickChallenge ==
    /\ now + ChallengeStep <= MaxChallengeSteps * ChallengeStep
    /\ now' = now + ChallengeStep
    /\ UNCHANGED <<attemptStore, lastCall, recorded>>
    /\ UNCHANGED <<dbVars, cfgVars, faultsLeft, pageVars, histVars>>

(***************************************************************************)
(* pages/BookingPage.jsx.                                                  *)
(***************************************************************************)
\* A catch block that shows every error's own message: the page the
\* configuration-error property has to tell apart from the real one.
CatchMessageRaw(kind) == "error"

\* The catch block of handleSubmit (lines 291-307): the message shown.
CatchMessage(kind) ==
    IF kind = "config" THEN "config"
    ELSE IF kind = "42501" THEN "permission"
    ELSE "error"

\* What handleSubmit's catch block shows for a verifySlotAvailability that threw.
VerifyThrown(isAvailable) ==
    CatchMessage(IF isAvailable = "throw42501" THEN "42501" ELSE "other")

\* A handleSubmit run ends without a booking: the message, setSubmitting(false).
EndRun(c, tag) ==
    /\ submitError' = [submitError EXCEPT ![c] = tag]
    /\ submitting' = [submitting EXCEPT ![c] = FALSE]
    /\ pc' = [pc EXCEPT ![c] = "idle"]
    /\ lastSubmit' = [lastSubmit EXCEPT ![c] = tag]

\* handleSlotSelect (lines 92-129), with the answer of verifySlotAvailability.
handleSlotSelect(c, s) ==
    /\ ~submitSuccess[c]
    /\ IF isSlotDisabled(slots[s].start_time, now)
       THEN /\ submitError' = [submitError EXCEPT ![c] = "slotDisabled"]
            /\ UNCHANGED <<selectedSlot, faultsLeft>>
       ELSE \E ok \in Answers :
              LET isAvailable == verifySlotAvailability(s, ok)
              IN  /\ Fault(ok)
                  /\ IF isAvailable = "true"
                     THEN /\ selectedSlot' = [selectedSlot EXCEPT ![c] = s]
                          /\ submitError' = [submitError EXCEPT ![c] = Null]
                     ELSE /\ submitError' = [submitError EXCEPT ![c] =
                                 IF isAvailable = "false" THEN "slotUnavailable"
                                 ELSE "verifyError"]
                          /\ UNCHANGED selectedSlot
    /\ UNCHANGED <<pc, runSlot, submitting, submitSuccess, confirmedBooking,
                   isHumanVerified, hvVerified, formData, calendarSlots,
                   compVars, emailState>>
    /\ UNCHANGED <<dbVars, cfgVars, rateVars, histVars>>

\* handleCancelBooking (lines 313-316); the button is disabled while submitting.
handleCancelBooking(c) ==
    /\ selectedSlot[c] # Null /\ ~submitting[c] /\ ~submitSuccess[c]
    /\ selectedSlot' = [selectedSlot EXCEPT ![c] = Null]
    /\ submitError' = [submitError EXCEPT ![c] = Null]
    /\ hvVerified' = [hvVerified EXCEPT ![c] = FALSE]
    /\ challenge' = [challenge EXCEPT ![c] = NoChallenge]
    /\ UNCHANGED <<pc, runSlot, submitting, submitSuccess, confirmedBooking,
                   isHumanVerified, formData, calendarSlots, compRest, emailState>>
    /\ UNCHANGED <<dbVars, cfgVars, faultsLeft, rateVars, histVars>>

\* HumanVerification.handleSubmit and the page's onVerificationComplete
\* (HumanVerification.jsx lines 38-60, BookingPage.jsx lines 527-534).
onVerificationComplete(c, success) ==
    /\ selectedSlot[c] # Null /\ ~submitSuccess[c] /\ ~hvVerified[c]
    /\ hvVerified' = [hvVerified EXCEPT ![c] = success]
    /\ isHumanVerified' = [isHumanVerified EXCEPT ![c] = success]
    /\ submitError' = IF success THEN submitError
                      ELSE [submitError EXCEPT ![c] = "verification"]
    /\ UNCHANGED <<pc, selectedSlot, runSlot, submitting, submitSuccess,
                   confirmedBooking, formData, calendarSlots, compVars, emailState>>
    /\ UNCHANGED <<dbVars, cfgVars, faultsLeft, rateVars, histVars>>

MaxLateClicks == 2      \* clicks on the disabled button, per page

\* The variant of the button that is never disabled.
ButtonNeverDisabled(c) == FALSE

\* <button type="submit" form="booking-form" disabled={submitting}
\* onClick={handleSubmit}> (lines 539-544): a disabled button dispatches no click.
ButtonDisabled(c) == submitting[c]

\* A click on the Confirm Booking button while it is disabled (the second click
\* of a double click): no handler runs.  The click on the enabled button is
\* handleSubmit below; its e.preventDefault() (line 166) cancels the submission
\* of the form, so that the form's onSubmit (line 431) starts no run of its own.
ConfirmBooking_click(c) ==
    /\ selectedSlot[c] # Null /\ ~submitSuccess[c]
    /\ ButtonDisabled(c)
    /\ lateClicks[c] < MaxLateClicks
    /\ lateClicks' = [lateClicks EXCEPT ![c] = @ + 1]
    /\ UNCHANGED <<bookingVars, notClick>>

\* handleSubmit, from the click to its first await (lines 165-203).
handleSubmit(c) ==
    /\ selectedSlot[c] # Null
    /\ ~ButtonDisabled(c) /\ ~submitSuccess[c]
    /\ runs[c] < MaxRuns
    /\ runs' = [runs EXCEPT ![c] = @ + 1]
    /\ LET email == formData[c].email
           store == StoreAfterCheck(attemptStore[c], email, now)
       IN  IF ~validateBookingForm(formData[c])
           THEN EndRun(c, "validation") /\ UNCHANGED <<attemptStore, runSlot>>
           ELSE IF ~isHumanVerified[c]
           THEN EndRun(c, "human") /\ UNCHANGED <<attemptStore, runSlot>>
           ELSE /\ attemptStore' = [attemptStore EXCEPT ![c] = store]
                /\ IF IsLimited(attemptStore[c], email, now)
                   THEN EndRun(c, "rateLimited") /\ UNCHANGED runSlot
                   ELSE /\ pc' = [pc EXCEPT ![c] = "count"]
                        /\ submitting' = [submitting EXCEPT ![c] = TRUE]
                        /\ submitError' = [submitError EXCEPT ![c] = Null]
                        /\ runSlot' = [runSlot EXCEPT ![c] = selectedSlot[c]]
                        /\ UNCHANGED lastSubmit
    /\ created' = [created EXCEPT ![c] = FALSE]
    /\ inserts' = [inserts EXCEPT ![c] = 0]
    /\ UNCHANGED <<selectedSlot, submitSuccess, confirmedBooking, isHumanVerified,
                   hvVerified, formData, calendarSlots, compVars, emailState>>
    /\ UNCHANGED <<dbVars, cfgVars, faultsLeft, now, lastCall, recorded, lastCancel>>

\* handleSubmit resumes with the answer of getUserReservationCount (lines 203-213).
handleSubmit_count(c) ==
    /\ pc[c] = "count"
    /\ \E ok \in Answers :
         LET reservationCount == getUserReservationCount(formData[c].email, ok)
         IN  /\ Fault(ok)
             /\ IF reservationCount.success /\ reservationCount.count >= 1
                THEN EndRun(c, "activeReservation")
                ELSE /\ pc' = [pc EXCEPT ![c] = "verify"]
                     /\ UNCHANGED <<submitError, submitting, lastSubmit>>
    /\ UNCHANGED <<selectedSlot, runSlot, submitSuccess, confirmedBooking,
                   isHumanVerified, hvVerified, formData, calendarSlots,
                   compVars, emailState>>
    /\ UNCHANGED <<dbVars, cfgVars, rateVars, created, inserts, runs, lastCancel>>

\* A slot-taken branch that keeps the selection: the page the rejection
\* property has to tell apart from the real one.
SlotTakenKeepsSelection(c) ==
    /\ EndRun(c, "slotTaken")
    /\ UNCHANGED <<selectedSlot, hvVerified, challenge>>

\* handleSubmit's branch for isAvailable === false (lines 218-225): the message,
\* setSelectedSlot(null) (the form and its HumanVerification unmount),
\* setSubmitting(false), return.
SlotTaken(c) ==
    /\ EndRun(c, "slotTaken")
    /\ selectedSlot' = [selectedSlot EXCEPT ![c] = Null]
    /\ hvVerified' = [hvVerified EXCEPT ![c] = FALSE]
    /\ challenge' = [challenge EXCEPT ![c] = NoChallenge]

\* handleSubmit resumes with the answer of verifySlotAvailability (lines 215-239).
handleSubmit_verify(c) ==
    /\ pc[c] = "verify"
    /\ \E ok \in Answers :
         LET isAvailable == verifySlotAvailability(runSlot[c], ok)
         IN  /\ Fault(ok)
             /\ IF isAvailable = "false"
                THEN /\ SlotTaken(c)
                     /\ UNCHANGED attemptStore
                ELSE IF isAvailable = "true"
                THEN /\ attemptStore' = [attemptStore EXCEPT
                            ![c] = StoreAfterRecord(@, formData[c].email, now)]
                     /\ pc' = [pc EXCEPT ![c] = "register"]
                     /\ UNCHANGED <<submitError, submitting, lastSubmit,
                                    selectedSlot, hvVerified, challenge>>
                ELSE /\ EndRun(c, VerifyThrown(isAvailable))
                     /\ UNCHANGED <<attemptStore, selectedSlot, hvVerified, challenge>>
    /\ UNCHANGED <<runSlot, submitSuccess, confirmedBooking, isHumanVerified,
                   formData, calendarSlots, compRest, emailState>>
    /\ UNCHANGED <<dbVars, cfgVars, now, lastCall, recorded,
                   created, inserts, runs, lastCancel>>

(***************************************************************************)
(* What a createReservation call found and what became of its reference.   *)
(***************************************************************************)
NoCall == [active |-> FALSE, nextId |-> 0, free |-> FALSE]

\* The store as a call for slot s finds it: the ids given out so far and the
\* slot's flag.
StoreAt(s) == [active |-> TRUE, nextId |-> nextResId, free |-> slots[s].is_available]

\* The call returned or threw.
CallEnds(c) == callStore' = [callStore EXCEPT ![c] = NoCall]

NoReferenceValue == [kind |-> "none", run |-> 0]
NoBookingRef ==
    [stored |-> NoReferenceValue, shown |-> NoReferenceValue,
     emailed |-> NoReferenceValue]

\* const bookingReference = generateBookingReference(), one value per call.
bookingReference(c) == [kind |-> "generated", run |-> runs[c]]

\* reference VARCHAR(255) NOT NULL DEFAULT 'N/A' (init.sql line 33, migration
\* 20240321000000): what a row inserted without the reference field holds.
DefaultReference == [kind |-> "N/A", run |-> 0]

\* The insert wrote a row whose reference column holds value.
StoreReference(c, value) == bookingRef' = [bookingRef EXCEPT ![c].stored = value]

\* handleSubmit (BookingPage.jsx lines 248-286): reservationData.reference goes
\* to sendBookingConfirmationEmail and to setConfirmedBooking.
UseReference(c, value) ==
    bookingRef' = [bookingRef EXCEPT ![c].shown = value, ![c].emailed = value]

\* What createReservation of part_005 returns as reference (lines 98-103): the
\* one of the inserted row, or bookingReference when the row has none.
ReturnedReference(c) ==
    IF bookingRef[c].stored.kind = "none" THEN bookingReference(c)
    ELSE bookingRef[c].stored

(***************************************************************************)
(* lib/userService: registerUser (part_006 lines 16-84), called by         *)
(* handleSubmit at line 239. A failure is returned, not thrown, and         *)
(* handleSubmit throws new Error(registrationResult.error).                *)
(***************************************************************************)
\* registerUser up to the answer of its select on users (lines 17-33).
registerUser_select(c) ==
    /\ pc[c] = "register"
    /\ IF ~adminConfigured
       THEN \* 'Admin access is required to register users. Service key not configured.'
            EndRun(c, CatchMessage("config")) /\ UNCHANGED faultsLeft
       ELSE \E ok \in Answers :
              /\ Fault(ok)
              /\ IF ok
                 THEN /\ pc' = [pc EXCEPT ![c] =
                             IF formData[c].email \in users THEN "regUpdate"
                             ELSE "regInsert"]
                      /\ UNCHANGED <<submitError, submitting, lastSubmit>>
                 ELSE EndRun(c, CatchMessage("other"))
    /\ UNCHANGED <<selectedSlot, runSlot, submitSuccess, confirmedBooking,
                   isHumanVerified, hvVerified, formData, calendarSlots,
                   compVars, emailState>>
    /\ UNCHANGED <<dbVars, cfgVars, rateVars, created, inserts, runs, lastCancel>>

\* registerUser from its update or insert of the users row to its return
\* (lines 36-79); handleSubmit then calls createReservation, which issues the
\* reservation insert.
registerUser_write(c) ==
    /\ pc[c] \in {"regUpdate", "regInsert"}
    /\ \E ok \in Answers :
         LET email == formData[c].email
             \* users.email is UNIQUE: a second insert of the address fails
             done == ok /\ (pc[c] = "regInsert" => email \notin users)
         IN  /\ Fault(ok)
             /\ IF done
                THEN /\ users' = IF pc[c] = "regInsert" THEN users \cup {email}
                                 ELSE users
                     /\ pc' = [pc EXCEPT ![c] = "insert"]
                     /\ callStore' = [callStore EXCEPT ![c] = StoreAt(runSlot[c])]
                     /\ bookingRef' = [bookingRef EXCEPT ![c] = NoBookingRef]
                     /\ UNCHANGED <<submitError, submitting, lastSubmit>>
                ELSE /\ EndRun(c, CatchMessage("other"))
                     /\ UNCHANGED <<users, callStore, bookingRef>>
    /\ UNCHANGED <<selectedSlot, runSlot, submitSuccess, confirmedBooking,
                   isHumanVerified, hvVerified, formData, calendarSlots,
                   callRest, emailState>>
    /\ UNCHANGED <<slots, reservations, nextResId, cfgVars, rateVars,
                   created, inserts, runs, lastCancel>>

(***************************************************************************)
(* lib/supabase: createReservation (part_005 lines 53-114).                *)
(***************************************************************************)
\* The database after the insert into reservations succeeded (lines 78-81).
InsertReservation(s, email) ==
    /\ reservations' = reservations \cup {ReservationRow(s, email)}
    /\ nextResId' = nextResId + 1
    /\ slots' = SlotsAfterInsert(s)

\* The answer of the insert (lines 78-88).
createReservation_insert(c) ==
    /\ pc[c] = "insert"
    /\ nextResId <= MaxReservations
    /\ inserts' = [inserts EXCEPT ![c] = @ + 1]
    /\ \E ok \in Answers :
         /\ Fault(ok)
         /\ IF ok /\ ~InsertRaises(runSlot[c])
            THEN /\ InsertReservation(runSlot[c], formData[c].email)
                 /\ pc' = [pc EXCEPT ![c] = "update"]
                 /\ StoreReference(c, bookingReference(c))
                 /\ UNCHANGED <<submitError, submitting, lastSubmit, callStore>>
            ELSE /\ EndRun(c, CatchMessage("other"))
                 /\ CallEnds(c)
                 /\ UNCHANGED <<slots, reservations, nextResId, bookingRef>>
    /\ UNCHANGED <<selectedSlot, runSlot, submitSuccess, confirmedBooking,
                   isHumanVerified, hvVerified, formData, calendarSlots,
                   callRest, emailState>>
    /\ UNCHANGED <<users, cfgVars, rateVars, created, runs, lastCancel>>

\* handleSubmit after createReservation returned (lines 248-290): the e-mail is
\* started and not awaited, the booking is confirmed.
ConfirmBooking(c) ==
    /\ emailState' = [emailState EXCEPT ![c] = "pending"]
    /\ confirmedBooking' = [confirmedBooking EXCEPT ![c] = runSlot[c]]
    /\ submitSuccess' = [submitSuccess EXCEPT ![c] = TRUE]
    /\ submitting' = [submitting EXCEPT ![c] = FALSE]
    /\ pc' = [pc EXCEPT ![c] = "idle"]
    /\ lastSubmit' = [lastSubmit EXCEPT ![c] = "success"]
    /\ UNCHANGED submitError

\* The answer of the update of the slot (lines 91-109), and handleSubmit's
\* continuation.
createReservation_update(c) ==
    /\ pc[c] = "update"
    /\ \E ok \in Answers :
         /\ Fault(ok)
         /\ IF ok
            THEN /\ slots' = [slots EXCEPT ![runSlot[c]].is_available = FALSE]
                 /\ created' = [created EXCEPT ![c] = TRUE]
                 /\ ConfirmBooking(c)
                 /\ UseReference(c, ReturnedReference(c))
            ELSE /\ EndRun(c, CatchMessage("other"))
                 /\ UNCHANGED <<slots, created, emailState, confirmedBooking,
                                submitSuccess, bookingRef>>
    /\ CallEnds(c)
    /\ UNCHANGED <<selectedSlot, runSlot, isHumanVerified, hvVerified, formData,
                   calendarSlots, callRest>>
    /\ UNCHANGED <<reservations, users, nextResId, cfgVars, rateVars,
                   inserts, runs, lastCancel>>

(***************************************************************************)
(* src/lib/supabase.js: the createReservation that first inserts with the  *)
(* anonymous client (lines 53-135) and createReservationWithoutReference   *)
(* (lines 138-188).                                                        *)
(***************************************************************************)
\* How a backend call of this createReservation answers: "ok"; "42501", the
\* permission error; "other", an error whose message names neither a column nor
\* a reference; "column", an error whose message does.
FaultKinds == IF faultsLeft > 0 THEN {"other", "column"} ELSE {}
FaultOf(ans) == Fault(ans \notin {"other", "column"})

\* Policies on reservations: the INSERT ... RETURNING of .insert().select() with
\* the anonymous key has to pass the SELECT policy
\* (user_email = auth.jwt() ->> 'email'), which no anonymous request does.
AnonInsertAnswers == {"42501"} \cup FaultKinds

\* An insert with the service key, which bypasses the policies, not the triggers.
AdminInsertAnswers(s) == (IF InsertRaises(s) THEN {"other"} ELSE {"ok"}) \cup FaultKinds

UpdateAnswers == {"ok"} \cup FaultKinds

\* The catch block of createReservation (lines 127-134): the fallback is called
\* for a message that includes 'column' or 'reference', the error rethrown
\* otherwise.
CatchCreate(c, ans) ==
    IF ans = "column"
    THEN /\ pc' = [pc EXCEPT ![c] = "fallbackInsert"]
         /\ UNCHANGED <<submitError, submitting, lastSubmit, callStore>>
    ELSE EndRun(c, CatchMessage(ans)) /\ CallEnds(c)

\* The answer of the insert with the anonymous client (lines 81-112).
createReservation_anonInsert(c) ==
    /\ pc[c] = "insert"
    /\ inserts' = [inserts EXCEPT ![c] = @ + 1]
    /\ \E ans \in AnonInsertAnswers :
         /\ FaultOf(ans)
         /\ IF ans = "42501"
            THEN /\ pc' = [pc EXCEPT ![c] = "adminInsert"]
                 /\ UNCHANGED <<submitError, submitting, lastSubmit, callStore>>
            ELSE CatchCreate(c, ans)
    /\ UNCHANGED <<selectedSlot, runSlot, submitSuccess, confirmedBooking,
                   isHumanVerified, hvVerified, formData, calendarSlots,
                   callRest, bookingRef, emailState>>
    /\ UNCHANGED <<dbVars, cfgVars, rateVars, created, runs, lastCancel>>

\* The answer of an insert with the service key: the one of lines 89-94, or the
\* one of createReservationWithoutReference (lines 151-156), whose error goes to
\* handleSubmit.
AdminInsert(c, next, fallback) ==
    /\ nextResId <= MaxReservations
    /\ inserts' = [inserts EXCEPT ![c] = @ + 1]
    /\ \E ans \in AdminInsertAnswers(runSlot[c]) :
         /\ FaultOf(ans)
         /\ IF ans = "ok"
            THEN /\ InsertReservation(runSlot[c], formData[c].email)
                 /\ pc' = [pc EXCEPT ![c] = next]
                 /\ StoreReference(c, IF fallback THEN bookingReference(c)
                                      ELSE DefaultReference)
                 /\ UNCHANGED <<submitError, submitting, lastSubmit, callStore>>
            ELSE /\ IF fallback THEN CatchCreate(c, ans)
                    ELSE EndRun(c, CatchMessage(ans)) /\ CallEnds(c)
                 /\ UNCHANGED <<slots, reservations, nextResId, bookingRef>>
    /\ UNCHANGED <<selectedSlot, runSlot, submitSuccess, confirmedBooking,
                   isHumanVerified, hvVerified, formData, calendarSlots,
                   callRest, emailState>>
    /\ UNCHANGED <<users, cfgVars, rateVars, created, runs, lastCancel>>

\* The answer of an update of the slot with the service key (lines 97-102,
\* 159-164), and handleSubmit's continuation.
AdminUpdate(c, fallback) ==
    /\ \E ans \in UpdateAnswers :
         /\ FaultOf(ans)
         /\ IF ans = "ok"
            THEN /\ slots' = [slots EXCEPT ![runSlot[c]].is_available = FALSE]
                 /\ created' = [created EXCEPT ![c] = TRUE]
                 /\ ConfirmBooking(c)
                 /\ UseReference(c, bookingReference(c))
                 /\ CallEnds(c)
            ELSE /\ IF fallback THEN CatchCreate(c, ans)
                    ELSE EndRun(c, CatchMessage(ans)) /\ CallEnds(c)
                 /\ UNCHANGED <<slots, created, emailState, confirmedBooking,
                                submitSuccess, bookingRef>>
    /\ UNCHANGED <<selectedSlot, runSlot, isHumanVerified, hvVerified, formData,
                   calendarSlots, callRest>>
    /\ UNCHANGED <<reservations, users, nextResId, cfgVars, rateVars,
                   inserts, runs, lastCancel>>

createReservation_adminInsert(c) ==
    pc[c] = "adminInsert" /\ AdminInsert(c, "adminUpdate", TRUE)

createReservation_adminUpdate(c) ==
    pc[c] = "adminUpdate" /\ AdminUpdate(c, TRUE)

createReservationWithoutReference_insert(c) ==
    pc[c] = "fallbackInsert" /\ AdminInsert(c, "fallbackUpdate", FALSE)

createReservationWithoutReference_update(c) ==
    pc[c] = "fallbackUpdate" /\ AdminUpdate(c, FALSE)

(***************************************************************************)
(* The confirmation e-mail (emailService.js lines 323-396) raced against   *)
(* the 3 second timer (BookingPage.jsx lines 257-281).                      *)
(***************************************************************************)
EmailOutcomes == {"sent", "failed", "rejected", "delayed"}

\* Callbacks that report a failed e-mail as a submit error: the page the
\* e-mail property has to tell apart from the real one.
EmailOutcomeShown(c, outcome) ==
    IF outcome = "sent" THEN submitError[c] ELSE "emailError"

\* What the .then / .catch callbacks do to the page's submitError: they log.
EmailOutcomeError(c, outcome) == submitError[c]

emailOutcome(c, outcome) ==
    /\ emailState[c] = "pending"
    /\ emailState' = [emailState EXCEPT ![c] = outcome]
    /\ submitError' = [submitError EXCEPT ![c] = EmailOutcomeError(c, outcome)]
    /\ UNCHANGED <<pc, selectedSlot, runSlot, submitting, submitSuccess,
                   confirmedBooking, isHumanVerified, hvVerified, formData, calendarSlots,
                   compVars>>
    /\ UNCHANGED <<dbVars, cfgVars, faultsLeft, rateVars, histVars>>

\* The 'Book Another Slot' button of the confirmation screen (lines 349-359).
bookAnother(c) ==
    /\ submitSuccess[c]
    /\ submitSuccess' = [submitSuccess EXCEPT ![c] = FALSE]
    /\ selectedSlot' = [selectedSlot EXCEPT ![c] = Null]
    /\ confirmedBooking' = [confirmedBooking EXCEPT ![c] = Null]
    /\ hvVerified' = [hvVerified EXCEPT ![c] = FALSE]
    /\ challenge' = [challenge EXCEPT ![c] = NoChallenge]
    /\ created' = [created EXCEPT ![c] = FALSE]
    /\ UNCHANGED <<pc, runSlot, submitting, submitError, isHumanVerified,
                   formData, calendarSlots, compRest, emailState>>
    /\ UNCHANGED <<dbVars, cfgVars, faultsLeft, rateVars,
                   lastSubmit, inserts, runs, lastCancel>>

(***************************************************************************)
(* Cancellation and slot administration.                                   *)
(***************************************************************************)
\* AdminPage handleStatusUpdateSubmit -> updateReservationStatus(id, 'cancelled',
\* reason) (part_008 lines 260-276, part_005 lines 360-385).
updateReservationStatus(r) ==
    /\ adminConfigured
    /\ r \in reservations /\ r.status # "cancelled"
    /\ reservations' = (reservations \ {r}) \cup {[r EXCEPT !.status = "cancelled"]}
    /\ lastCancel' = [slot |-> r.slot_id, by |-> "admin"]
    /\ UNCHANGED <<slots, users, nextResId>>
    /\ UNCHANGED <<cfgVars, faultsLeft, pageVars, rateVars,
                   created, lastSubmit, inserts, runs>>

\* Policy "Allow authenticated users to manage all reservations": the rows of
\* table reservations a DELETE with the anonymous key removes.
AnonDeletes(r) == {}

\* userService.cancelReservation (part_006 lines 241-258): a delete with the
\* anonymous client, which answers without an error.
cancelReservation(r) ==
    /\ r \in ActiveReservations
    /\ reservations' = reservations \ AnonDeletes(r)
    /\ lastCancel' = [slot |-> r.slot_id, by |-> "user"]
    /\ UNCHANGED <<slots, users, nextResId>>
    /\ UNCHANGED <<cfgVars, faultsLeft, pageVars, rateVars,
                   created, lastSubmit, inserts, runs>>

\* handleToggleSlotAvailability -> updateSlot(slot.id, {...slot, is_available})
\* (NotFound.jsx lines 288-298 and 744-745, part_005 lines 325-339); the switch is
\* disabled for a slot that isSlotDisabled, and the value written is the negation
\* of the admin page's copy of the row, which may be stale.
updateSlot(s, is_available) ==
    /\ adminConfigured
    /\ ~isSlotDisabled(slots[s].start_time, now)
    /\ slots' = [slots EXCEPT ![s].is_available = is_available]
    /\ UNCHANGED <<reservations, users, nextResId>>
    /\ UNCHANGED <<cfgVars, faultsLeft, pageVars, rateVars, histVars>>

(***************************************************************************)
(* AdminPage handleDeleteReservation -> deleteReservation(reservation.id)   *)
(* (part_008 lines 327-350, part_005 lines 387-423): three requests, the    *)
(* select of the row, the delete of the row, and resetSlotAvailability      *)
(* (part_005 lines 283-297); an error of any of them is thrown to the       *)
(* handler, which shows it.                                                *)
(***************************************************************************)
NoReservation == [id |-> 0, slot_id |-> "s1", user_email |-> "", status |-> "none"]
NoDelete == [id |-> 0, slot |-> "s1", outcome |-> "none", at |-> "none"]

\* The call ends: it returned the row ("ok") or threw at the step named.
DeleteEnds(id, slot, outcome, at) ==
    /\ deletePc' = [step |-> "idle", res |-> NoReservation]
    /\ lastDelete' = [id |-> id, slot |-> slot, outcome |-> outcome, at |-> at]

\* Lines 388-403: the check of the client and the select of the row with .single().
deleteReservation_fetch(r) ==
    /\ deletePc.step = "idle"
    /\ r \in reservations
    /\ IF ~adminConfigured
       THEN DeleteEnds(r.id, r.slot_id, "threw", "config") /\ UNCHANGED faultsLeft
       ELSE \E ok \in Answers :
              /\ Fault(ok)
              /\ IF ok THEN /\ deletePc' = [step |-> "delete", res |-> r]
                            /\ UNCHANGED lastDelete
                 ELSE DeleteEnds(r.id, r.slot_id, "threw", "fetch")
    /\ UNCHANGED <<dbVars, cfgVars, rateVars, histVars, pageCore, challenge, lastVerify>>
    /\ UNCHANGED notDel

\* Lines 405-411: the delete of the row.
deleteReservation_delete ==
    /\ deletePc.step = "delete"
    /\ \E ok \in Answers :
         /\ Fault(ok)
         /\ IF ok THEN /\ reservations' = {r \in reservations : r.id # deletePc.res.id}
                       /\ deletePc' = [deletePc EXCEPT !.step = "reset"]
                       /\ UNCHANGED lastDelete
            ELSE /\ DeleteEnds(deletePc.res.id, deletePc.res.slot_id, "threw", "delete")
                 /\ UNCHANGED reservations
    /\ UNCHANGED <<slots, users, nextResId>>
    /\ UNCHANGED <<cfgVars, rateVars, histVars, pageCore, challenge, lastVerify>>
    /\ UNCHANGED notDel

\* Lines 413-418: resetSlotAvailability(reservation.slot_id), an update of the
\* slot row; its error leaves deleteReservation through the catch block.
deleteReservation_reset ==
    /\ deletePc.step = "reset"
    /\ \E ok \in Answers :
         /\ Fault(ok)
         /\ IF ok THEN /\ slots' = [slots EXCEPT ![deletePc.res.slot_id].is_available = TRUE]
                       /\ DeleteEnds(deletePc.res.id, deletePc.res.slot_id, "ok", "none")
            ELSE /\ DeleteEnds(deletePc.res.id, deletePc.res.slot_id, "threw", "reset")
                 /\ UNCHANGED slots
    /\ UNCHANGED <<reservations, users, nextResId>>
    /\ UNCHANGED <<cfgVars, rateVars, histVars, pageCore, challenge, lastVerify>>
    /\ UNCHANGED notDel

(***************************************************************************)
(* The administrator's login (lib/auth, part_003) and table settings       *)
(* (supabase/migrations/20250410000000_add_settings_table.sql).            *)
(***************************************************************************)
MaxPasswordLen == 2     \* characters of the passwords tried

\* The character codes the passwords are made of ('a', 'b').
CharCodes == {97, 98}

Passwords == UNION {[1..n -> CharCodes] : n \in 0..MaxPasswordLen}

\* The minimum length handleSetupSubmit asks for (part_008, line 199).
MinPasswordLength == 8

\* What the forms are filled in with: passwords one character short of the
\* minimum and of the minimum length.
RECURSIVE Repeat(_, _)
Repeat(code, n) == IF n = 0 THEN <<>> ELSE Append(Repeat(code, n - 1), code)

SetupPasswords ==
    {Repeat(code, n) : n \in {MinPasswordLength - 1, MinPasswordLength},
                       code \in CharCodes}

\* The bit operators of the language work on 32-bit two's complement integers.
\* The model's integers have that width too, so the arithmetic is done on the
\* two 16-bit halves of a value.
TwoTo16 == 65536
Lo16(x) == x % TwoTo16
Hi16(x) == (x \div TwoTo16) % TwoTo16
FromHalves(high, low) ==
    IF high >= TwoTo16 \div 2 THEN (high - TwoTo16) * TwoTo16 + low
    ELSE high * TwoTo16 + low

\* The value whose halves are hi and lo, each reduced to 16 bits with the
\* carry of lo added to hi.
Carry(hi, lo) == FromHalves((hi + lo \div TwoTo16) % TwoTo16, lo % TwoTo16)

\* hash << 5
Shl5(value) == Carry(Hi16(value) * 32, Lo16(value) * 32)

\* ToInt32(a - b) and ToInt32(a + b), as `hash & hash` leaves them.
Sub32(a, b) == Carry(Hi16(a) - Hi16(b), Lo16(a) - Lo16(b))
Add32(a, b) == Carry(Hi16(a) + Hi16(b), Lo16(a) + Lo16(b))

\* One round of the loop of hashPassword (lines 150-154):
\* hash = ((hash << 5) - hash) + char; hash = hash & hash.
HashRound(hash, char) == Add32(Sub32(Shl5(hash), hash), char)

\* hashPassword (lines 147-156): hash[i] is the value of hash after i rounds of
\* the loop, each round taking the value of the round before it; toString(16)
\* is one-to-one and is left out.
hashPassword(password) ==
    LET hash[i \in 0..Len(password)] ==
            IF i = 0 THEN 0
            ELSE CHOOSE next \in {HashRound(before, password[i]) : before \in {hash[i - 1]}} :
                    TRUE
    IN  hash[Len(password)]

\* The row the migration inserts: value ''.
NoPassword == [empty |-> TRUE, hash |-> 0]

NoLogin == [by |-> "none", password |-> <<>>, stored |-> NoPassword,
            configured |-> FALSE, success |-> FALSE, message |-> "none"]

\* localStorage.getItem(TOKEN_KEY) === null
NoToken == [role |-> "none", iat |-> 0, exp |-> 0]

\* .setIssuedAt().setExpirationTime('1h')
AdminTokenAt(t) == [role |-> "admin", iat |-> t, exp |-> t + HourMs]

\* A login that does not compare the hashes: the function the login property
\* has to tell apart from the real one.
loginAdminResultNoCompare(password, ok, signs) ==
    IF ~adminConfigured THEN [success |-> FALSE, message |-> "notAvailable"]
    ELSE IF ~ok THEN [success |-> FALSE, message |-> "retrieveError"]
    ELSE IF signs THEN [success |-> TRUE, message |-> "none"]
    ELSE [success |-> FALSE, message |-> "authError"]

\* What loginAdmin returns (lines 69-115) once its select on settings was
\* answered with the row data: ok is the answer of the select, signs whether
\* SignJWT().sign() returned a token.
loginAdminCompare(data, password, ok, signs) ==
    IF ~adminConfigured THEN [success |-> FALSE, message |-> "notAvailable"]
    ELSE IF ~ok THEN [success |-> FALSE, message |-> "retrieveError"]
    ELSE IF data.empty THEN [success |-> FALSE, message |-> "notSetUp"]
    ELSE IF hashPassword(password) = data.hash
         THEN IF signs THEN [success |-> TRUE, message |-> "none"]
              ELSE [success |-> FALSE, message |-> "authError"]
    ELSE [success |-> FALSE, message |-> "invalidPassword"]

\* loginAdmin with its select answered in the same step.
loginAdminResult(password, ok, signs) == loginAdminCompare(settings, password, ok, signs)

\* loginAdmin(password): localStorage.setItem(TOKEN_KEY, token) on success.
loginAdmin(password) ==
    /\ \E ok \in Answers, signs \in BOOLEAN :
         LET result == loginAdminResult(password, ok, signs)
         IN  /\ Fault(ok \/ ~adminConfigured)
             /\ adminToken' = IF result.success THEN AdminTokenAt(now) ELSE adminToken
             /\ lastLogin' = [by |-> "admin", password |-> password, stored |-> settings,
                              configured |-> adminConfigured,
                              success |-> result.success, message |-> result.message]
    /\ UNCHANGED settings
    /\ UNCHANGED <<dbVars, cfgVars, rateVars, histVars, pageCore, challenge, lastVerify>>
    /\ UNCHANGED notLogin

\* setupAdminPassword(password) (lines 40-67): the update of the settings row.
setupAdminPassword(password) ==
    /\ adminConfigured
    /\ \E ok \in Answers :
         /\ Fault(ok)
         /\ settings' = IF ok THEN [empty |-> FALSE, hash |-> hashPassword(password)]
                        ELSE settings
    /\ UNCHANGED <<adminToken, lastLogin>>
    /\ UNCHANGED <<dbVars, cfgVars, rateVars, histVars, pageCore, challenge, lastVerify>>
    /\ UNCHANGED notLogin

\* logoutAdmin (lines 117-119).
logoutAdmin ==
    /\ adminToken # NoToken
    /\ adminToken' = NoToken
    /\ UNCHANGED <<settings, lastLogin>>
    /\ UNCHANGED <<bookingVars, notLogin>>

(***************************************************************************)
(* The administrator's page (AdminPage, part_008): checkAuth on load, the  *)
(* first-time setup form, the login form and logout.                       *)
(***************************************************************************)
\* The useState values of a page that was just mounted; firstTimeSetup holds
\* "false", "true" or "promise" (a pending or settled Promise object).
AdminPageMounted ==
    [isCheckingAuth |-> TRUE, isAuthenticated |-> FALSE, firstTimeSetup |-> "false",
     formError |-> "none"]

\* if (firstTimeSetup): an object is truthy.
Truthy(value) == value # "false"

\* Which of the page's render branches is shown (lines 408-480).
Shown ==
    IF adminPage.isCheckingAuth THEN "spinner"
    ELSE IF Truthy(adminPage.firstTimeSetup) THEN "setup"
    ELSE IF ~adminPage.isAuthenticated THEN "login"
    ELSE "dashboard"

NoSetupRun ==
    [pc |-> "idle", password |-> <<>>, before |-> NoPassword, faults |-> 0,
     update |-> "none", select |-> "none", data |-> NoPassword, ok |-> TRUE]

NoAuth == [called |-> FALSE, at |-> 0, stored |-> NoToken, result |-> FALSE]

\* jose.jwtVerify(token, secret) of a token signed by loginAdmin with the same
\* secret: it throws once the current time has reached the exp claim.
jwtVerify(token, t) == t < token.exp

\* A verification that never looks at the exp claim: what the token property
\* has to tell apart from the real one.
isAuthenticatedNoExpiry(token, t) == token # NoToken

\* What isAdminAuthenticated returns (part_003, lines 121-139).
isAuthenticatedResult(token, t) == token # NoToken /\ jwtVerify(token, t)

\* localStorage after isAdminAuthenticated: removeItem(TOKEN_KEY) in the catch.
TokenAfterAuth(token, t) == IF isAuthenticatedResult(token, t) THEN token ELSE NoToken

\* isAdminAuthenticated, called by the route guard (App.jsx, AdminRoute).
isAdminAuthenticated ==
    /\ lastAuth' = [called |-> TRUE, at |-> now, stored |-> adminToken,
                    result |-> isAuthenticatedResult(adminToken, now)]
    /\ adminToken' = TokenAfterAuth(adminToken, now)
    /\ UNCHANGED <<settings, lastLogin, adminPage, setupRun>>
    /\ UNCHANGED <<bookingVars, notConsole>>

\* The page is loaded again in the browser.
AdminPage_mount ==
    /\ adminPage.isCheckingAuth = FALSE
    /\ setupRun.pc = "idle"
    /\ adminPage' = AdminPageMounted
    /\ UNCHANGED <<settings, adminToken, lastLogin, setupRun, lastAuth>>
    /\ UNCHANGED <<bookingVars, notConsole>>

\* const isFirstTime = isFirstTimeSetup(), without await: the Promise.
isFirstTime == "promise"

\* checkAuth (lines 46-68).
AdminPage_checkAuth ==
    /\ adminPage.isCheckingAuth
    /\ lastAuth' = [called |-> TRUE, at |-> now, stored |-> adminToken,
                    result |-> isAuthenticatedResult(adminToken, now)]
    /\ adminToken' = TokenAfterAuth(adminToken, now)
    /\ adminPage' = [adminPage EXCEPT
                        !.isCheckingAuth = FALSE,
                        !.isAuthenticated = isAuthenticatedResult(adminToken, now),
                        !.firstTimeSetup = isFirstTime]
    /\ UNCHANGED <<settings, lastLogin, setupRun>>
    /\ UNCHANGED <<bookingVars, notConsole>>

\* handleSetupSubmit (lines 191-224) up to its first await: the validation,
\* then setupAdminPassword(password), not awaited, and loginAdmin(password);
\* each runs up to its request to the backend.
handleSetupSubmit(password, confirmPassword) ==
    /\ Shown = "setup"
    /\ setupRun.pc = "idle" /\ setupRun.update # "sent"
    /\ IF Len(password) < MinPasswordLength
       THEN /\ adminPage' = [adminPage EXCEPT !.formError = "tooShort"]
            /\ UNCHANGED <<setupRun, lastLogin>>
       ELSE IF password # confirmPassword
       THEN /\ adminPage' = [adminPage EXCEPT !.formError = "noMatch"]
            /\ UNCHANGED <<setupRun, lastLogin>>
       ELSE IF ~adminConfigured
       THEN /\ adminPage' = [adminPage EXCEPT !.formError = "setupError"]
            /\ lastLogin' = [by |-> "setup", password |-> password, stored |-> settings,
                             configured |-> FALSE, success |-> FALSE,
                             message |-> "notAvailable"]
            /\ UNCHANGED setupRun
       ELSE /\ adminPage' = [adminPage EXCEPT !.formError = "none"]
            /\ setupRun' = [pc |-> "waiting", password |-> password, before |-> settings,
                            faults |-> faultsLeft, update |-> "sent",
                            select |-> "sent", data |-> NoPassword, ok |-> TRUE]
            /\ UNCHANGED lastLogin
    /\ UNCHANGED <<settings, adminToken, lastAuth, faultsLeft>>
    /\ UNCHANGED <<dbVars, cfgVars, rateVars, histVars, pageCore, challenge, lastVerify>>
    /\ UNCHANGED notConsole

\* The backend carries out the update of setupAdminPassword (lines 52-55).
setupAdminPassword_update ==
    /\ setupRun.update = "sent"
    /\ \E ok \in Answers, password \in SetupPasswords :
         /\ password = setupRun.password
         /\ Fault(ok)
         /\ settings' = IF ok THEN [empty |-> FALSE, hash |-> hashPassword(password)]
                        ELSE settings
    /\ setupRun' = [setupRun EXCEPT !.update = "done"]
    /\ UNCHANGED <<adminToken, lastLogin, adminPage, lastAuth>>
    /\ UNCHANGED <<dbVars, cfgVars, rateVars, histVars, pageCore, challenge, lastVerify>>
    /\ UNCHANGED notConsole

\* The backend answers the select of loginAdmin (lines 77-81).
loginAdmin_select ==
    /\ setupRun.select = "sent"
    /\ \E ok \in Answers :
         /\ Fault(ok)
         /\ setupRun' = [setupRun EXCEPT !.select = "answered", !.data = settings,
                                         !.ok = ok]
    /\ UNCHANGED <<settings, adminToken, lastLogin, adminPage, lastAuth>>
    /\ UNCHANGED <<dbVars, cfgVars, rateVars, histVars, pageCore, challenge, lastVerify>>
    /\ UNCHANGED notConsole

\* handleSetupSubmit after `await loginAdmin(password)` (lines 211-219).
handleSetupSubmit_login ==
    /\ setupRun.pc = "waiting" /\ setupRun.select = "answered"
    /\ \E signs \in BOOLEAN, password \in SetupPasswords :
         LET result == loginAdminCompare(setupRun.data, password, setupRun.ok, signs)
         IN  /\ password = setupRun.password
             /\ adminToken' = IF result.success THEN AdminTokenAt(now) ELSE adminToken
             /\ lastLogin' = [by |-> "setup", password |-> setupRun.password,
                              stored |-> setupRun.data, configured |-> adminConfigured,
                              success |-> result.success, message |-> result.message]
             /\ adminPage' = IF result.success
                             THEN [adminPage EXCEPT !.firstTimeSetup = "false",
                                                    !.isAuthenticated = TRUE]
                             ELSE [adminPage EXCEPT !.formError = "setupError"]
    /\ setupRun' = [setupRun EXCEPT !.pc = "idle", !.select = "none"]
    /\ UNCHANGED <<settings, lastAuth>>
    /\ UNCHANGED <<bookingVars, notConsole>>

\* handleLoginSubmit (lines 226-244): loginAdmin(password), awaited.
handleLoginSubmit(password) ==
    /\ Shown = "login"
    /\ \E ok \in Answers, signs \in BOOLEAN :
         LET result == loginAdminResult(password, ok, signs)
         IN  /\ Fault(ok \/ ~adminConfigured)
             /\ adminToken' = IF result.success THEN AdminTokenAt(now) ELSE adminToken
             /\ lastLogin' = [by |-> "login", password |-> password, stored |-> settings,
                              configured |-> adminConfigured,
                              success |-> result.success, message |-> result.message]
             /\ adminPage' = IF result.success
                             THEN [adminPage EXCEPT !.isAuthenticated = TRUE,
                                                    !.formError = "none"]
                             ELSE [adminPage EXCEPT !.formError = result.message]
    /\ UNCHANGED <<settings, setupRun, lastAuth>>
    /\ UNCHANGED <<dbVars, cfgVars, rateVars, histVars, pageCore, challenge, lastVerify>>
    /\ UNCHANGED notConsole

\* handleLogout (lines 246-249).
handleLogout ==
    /\ Shown = "dashboard"
    /\ adminToken' = NoToken
    /\ adminPage' = [adminPage EXCEPT !.isAuthenticated = FALSE]
    /\ UNCHANGED <<settings, lastLogin, setupRun, lastAuth>>
    /\ UNCHANGED <<bookingVars, notConsole>>

(***************************************************************************)
(* lib/emailService: generateBookingReference (lines 226-241).  A string is *)
(* a sequence of one-character strings.                                    *)
(***************************************************************************)
FirstYear == 2025
LastYear == 2026

\* const characters = 'ABCDEFGHIJKLMNOPQRSTUVWXYZ0123456789'
characters ==
    <<"A", "B", "C", "D", "E", "F", "G", "H", "I", "J", "K", "L", "M",
      "N", "O", "P", "Q", "R", "S", "T", "U", "V", "W", "X", "Y", "Z",
      "0", "1", "2", "3", "4", "5", "6", "7", "8", "9">>

\* Math.floor(Math.random() * characters.length): an index from 0 to 35; the
\* model draws the first and last letter and the first and last digit.
RandomIndexes == {0, 25, 26, Len(characters) - 1}

\* characters.charAt(index), index counted from 0.
charAt(str, index) == IF index + 1 \in DOMAIN str THEN <<str[index + 1]>> ELSE <<>>

\* Number.prototype.toString() of a natural number: its decimal digits.
RECURSIVE toString(_)
toString(n) ==
    IF n < 10 THEN charAt(characters, 26 + n)
    ELSE toString(n \div 10) \o charAt(characters, 26 + (n % 10))

\* The variant of padStart that pads nothing.
padStartNone(str, targetLength) == str

\* String.prototype.padStart(targetLength, '0')
RECURSIVE padStart(_, _)
padStart(str, targetLength) ==
    IF Len(str) >= targetLength THEN str ELSE padStart(<<"0">> \o str, targetLength)

\* The days of a month of the local calendar; month counted from 0 as getMonth().
IsLeap(year) == (year % 4 = 0 /\ year % 100 # 0) \/ year % 400 = 0
DaysInMonth(year, month) ==
    IF month = 1 THEN (IF IsLeap(year) THEN 29 ELSE 28)
    ELSE IF month \in {3, 5, 8, 10} THEN 30 ELSE 31

\* new Date(): the local date, as getFullYear(), getMonth() and getDate() give it.
LocalDates ==
    {d \in [year : FirstYear..LastYear, month : 0..11, date : 1..31] :
        d.date <= DaysInMonth(d.year, d.month)}

\* The loop of lines 235-238: four characters, one per draw.
RECURSIVE suffixOf(_)
suffixOf(draws) ==
    IF draws = <<>> THEN <<>>
    ELSE charAt(characters, Head(draws)) \o suffixOf(Tail(draws))

\* The value generateBookingReference returns on local date d with the draws.
bookingReferenceOf(d, draws) ==
    LET datePart == toString(d.year) \o padStart(toString(d.month + 1), 2)
                        \o padStart(toString(d.date), 2)
    IN  <<"A", "D", "R", "-">> \o datePart \o <<"-">> \o suffixOf(draws)

NoReference == [date |-> [year |-> 0, month |-> 0, date |-> 0], value |-> <<>>]

\* The local dates and draws a call can meet.
ReferenceInputs == [date : LocalDates, draws : [1..4 -> RandomIndexes]]

\* generateBookingReference() (lines 226-241)
generateBookingReference ==
    /\ lastReference' = [date |-> refInput.date,
                         value |-> bookingReferenceOf(refInput.date, refInput.draws)]
    /\ UNCHANGED refInput
    /\ UNCHANGED <<bookingVars, notRef>>

(***************************************************************************)
(* The specifications.                                                     *)
(***************************************************************************)
PageFresh ==
    /\ pc = [c \in Clients |-> "idle"]
    /\ selectedSlot = [c \in Clients |-> Null]
    /\ runSlot = [c \in Clients |-> Null]
    /\ submitting = [c \in Clients |-> FALSE]
    /\ submitError = [c \in Clients |-> Null]
    /\ submitSuccess = [c \in Clients |-> FALSE]
    /\ confirmedBooking = [c \in Clients |-> Null]
    /\ isHumanVerified = [c \in Clients |-> FALSE]
    /\ hvVerified = [c \in Clients |-> FALSE]
    /\ emailState = [c \in Clients |-> "none"]
    /\ challenge = [c \in Clients |-> NoChallenge]

PageInit == PageFresh /\ calendarSlots = [c \in Clients |-> NoFetch]

HistCore ==
    /\ lastCall = [op |-> "none", id |-> "", at |-> 0, limited |-> FALSE]
    /\ recorded = [i \in Identifiers |-> <<>>]
    /\ created = [c \in Clients |-> FALSE]
    /\ lastSubmit = [c \in Clients |-> "none"]
    /\ inserts = [c \in Clients |-> 0]
    /\ runs = [c \in Clients |-> 0]
    /\ lastCancel = [slot |-> "s1", by |-> "none"]
    /\ lastVerify = NoVerify
    /\ settings = NoPassword
    /\ adminToken = NoToken
    /\ lastLogin = NoLogin
    /\ lastReference = NoReference
    /\ deletePc = [step |-> "idle", res |-> NoReservation]
    /\ lastDelete = NoDelete
    /\ channel = <<>>
    /\ published = 0
    /\ pendingFetch = [c \in Clients |-> {}]
    /\ lateClicks = [c \in Clients |-> 0]
    /\ adminAttemptStore = [i \in Identifiers |-> NoEntry]
    /\ lastDisabled = NoDisabled
    /\ adminPage = AdminPageMounted
    /\ setupRun = NoSetupRun
    /\ lastAuth = NoAuth
    /\ callStore = [c \in Clients |-> NoCall]
    /\ bookingRef = [c \in Clients |-> NoBookingRef]
    /\ quickBookSlot = [c \in Clients |-> Null]

\* Outside SpecSecurity the Security tab is open in a page load of its own.
OwnTab == "admin"
TabFixed == adminTab = OwnTab

\* Outside SpecLead the browser's local time is UTC.
ZoneFixed == tzOffset = 0

\* Outside SpecReference no reference is generated; the input stays at one value.
RefFixed ==
    refInput = [date |-> [year |-> FirstYear, month |-> 0, date |-> 1],
                draws |-> [i \in 1..4 |-> 0]]

HistInit == HistCore /\ RefFixed /\ TabFixed /\ ZoneFixed

DbInit ==
    /\ slots = InitSlots
    /\ reservations = {}
    /\ users = {}
    /\ nextResId = 1

StoreInit ==
    /\ now = 0
    /\ attemptStore = [c \in Clients |-> [i \in Identifiers |-> NoEntry]]

\* One booking page, the administrator and the user's profile page, in every
\* deployment.
Init ==
    /\ DbInit /\ PageInit /\ HistInit /\ StoreInit
    /\ adminConfigured \in BOOLEAN
    /\ schema \in {"init.sql", "schema.sql"}
    /\ anonAccess \in {"rls", "denied"}
    /\ faultsLeft = MaxFaults
    /\ formData = [c \in Clients |-> [name |-> "N", email |-> "a@lab"]]

\* One handleSubmit run, from the selection of the slot to the confirmation.
SubmitNext(c) ==
    \/ \E s \in SlotIds : handleSlotSelect(c, s)
    \/ \E success \in BOOLEAN : onVerificationComplete(c, success)
    \/ handleSubmit(c)
    \/ handleSubmit_count(c)
    \/ handleSubmit_verify(c)
    \/ registerUser_select(c)
    \/ registerUser_write(c)
    \/ createReservation_insert(c)
    \/ createReservation_update(c)

PageNext(c) ==
    \/ SubmitNext(c)
    \/ handleCancelBooking(c)
    \/ \E o \in EmailOutcomes : emailOutcome(c, o)
    \/ bookAnother(c)

AdminNext ==
    \/ \E r \in reservations : updateReservationStatus(r)
    \/ \E r \in reservations : cancelReservation(r)
    \/ \E s \in SlotIds, v \in BOOLEAN : updateSlot(s, v)

Next ==
    \/ PageNext("c1")
    \/ AdminNext

Spec == Init /\ [][Next]_vars

\* One booking page alone: every change of the store is the page's own.
CallNext ==
    \/ SubmitNext("c1")
    \/ bookAnother("c1")

SpecCall == Init /\ [][CallNext]_vars

\* The rate limiter alone, called at arbitrary times.
RateInit ==
    /\ DbInit /\ PageInit /\ HistInit /\ StoreInit
    /\ adminConfigured = TRUE
    /\ schema = "init.sql"
    /\ anonAccess = "rls"
    /\ faultsLeft = 0
    /\ formData = [c \in Clients |-> [name |-> "N", email |-> "a@lab"]]

RateNext ==
    \/ \E i \in Identifiers : checkRateLimit(i)
    \/ \E i \in Identifiers : recordAttempt(i)
    \/ \E i \in Identifiers : clearRateLimit(i)
    \/ Tick

SpecRate == RateInit /\ [][RateNext]_vars

\* Two browser clients booking at the same time, with a backend that answers
\* every call, in both schemas.
RaceInit ==
    /\ DbInit /\ PageInit /\ HistInit /\ StoreInit
    /\ adminConfigured = TRUE
    /\ schema \in {"init.sql", "schema.sql"}
    /\ anonAccess = "rls"
    /\ faultsLeft = 0
    /\ formData = [c \in Clients |->
                      [name |-> "N", email |-> IF c = "c1" THEN "a@lab" ELSE "b@lab"]]

RaceNext == \E c \in Clients : SubmitNext(c)

SpecRace == RaceInit /\ [][RaceNext]_vars

\* One booking page whose createReservation is the one of src/lib/supabase.js.
LegacyInit ==
    /\ DbInit /\ PageInit /\ HistInit /\ StoreInit
    /\ adminConfigured = TRUE
    /\ schema \in {"init.sql", "schema.sql"}
    /\ anonAccess = "rls"
    /\ faultsLeft = MaxFaults
    /\ formData = [c \in Clients |-> [name |-> "N", email |-> "a@lab"]]

LegacyNext ==
    \/ \E s \in SlotIds : handleSlotSelect("c1", s)
    \/ onVerificationComplete("c1", TRUE)
    \/ handleSubmit("c1")
    \/ handleSubmit_count("c1")
    \/ handleSubmit_verify("c1")
    \/ registerUser_select("c1")
    \/ registerUser_write("c1")
    \/ createReservation_anonInsert("c1")
    \/ createReservation_adminInsert("c1")
    \/ createReservation_adminUpdate("c1")
    \/ createReservationWithoutReference_insert("c1")
    \/ createReservationWithoutReference_update("c1")
    \/ bookAnother("c1")

SpecLegacy == LegacyInit /\ [][LegacyNext]_vars

\* One booking page with its HumanVerification component, while time passes.
ChallengeInit ==
    /\ DbInit /\ PageInit /\ HistInit /\ StoreInit
    /\ adminConfigured = TRUE
    /\ schema = "init.sql"
    /\ anonAccess = "rls"
    /\ faultsLeft = 0
    /\ formData = [c \in Clients |-> [name |-> "N", email |-> "a@lab"]]

ChallengeNext ==
    \/ \E s \in SlotIds : handleSlotSelect("c1", s)
    \/ handleCancelBooking("c1")
    \/ HumanVerification_mount("c1")
    \/ \E answer \in UserAnswers : HumanVerification_handleSubmit("c1", answer)
    \/ TickChallenge
    \/ handleSubmit("c1")
    \/ handleSubmit_count("c1")
    \/ handleSubmit_verify("c1")
    \/ registerUser_select("c1")
    \/ registerUser_write("c1")
    \/ createReservation_insert("c1")
    \/ createReservation_update("c1")
    \/ bookAnother("c1")

SpecChallenge == ChallengeInit /\ [][ChallengeNext]_vars

\* The administrator's browser: password set-up, login and logout.
AdminInit ==
    /\ DbInit /\ PageInit /\ HistInit /\ StoreInit
    /\ adminConfigured \in BOOLEAN
    /\ schema = "init.sql"
    /\ anonAccess = "rls"
    /\ faultsLeft = MaxFaults
    /\ formData = [c \in Clients |-> [name |-> "N", email |-> "a@lab"]]

AdminLoginNext ==
    \/ \E password \in Passwords : setupAdminPassword(password)
    \/ \E password \in Passwords : loginAdmin(password)
    \/ logoutAdmin

SpecAdmin == AdminInit /\ [][AdminLoginNext]_vars

\* generateBookingReference on every local date of the years modelled.
ReferenceInit ==
    /\ DbInit /\ PageInit /\ HistCore /\ TabFixed /\ ZoneFixed /\ StoreInit
    /\ refInput \in ReferenceInputs
    /\ adminConfigured = TRUE
    /\ schema = "init.sql"
    /\ anonAccess = "rls"
    /\ faultsLeft = 0
    /\ formData = [c \in Clients |-> [name |-> "N", email |-> "a@lab"]]

ReferenceNext == generateBookingReference

SpecReference == ReferenceInit /\ [][ReferenceNext]_vars

\* The administrator deletes reservations: every slot is held by one
\* confirmed reservation at the start.
BookedSlots == [s \in SlotIds |-> [InitSlots[s] EXCEPT !.is_available = FALSE]]
BookedReservations ==
    {[id |-> 1, slot_id |-> "s1", user_email |-> "a@lab", status |-> "confirmed"],
     [id |-> 2, slot_id |-> "s2", user_email |-> "b@lab", status |-> "confirmed"]}

DeleteInit ==
    /\ PageInit /\ HistInit /\ StoreInit
    /\ slots = BookedSlots
    /\ reservations = BookedReservations
    /\ users = {} /\ nextResId = 3
    /\ adminConfigured \in BOOLEAN
    /\ schema \in {"init.sql", "schema.sql"}
    /\ anonAccess = "rls"
    /\ faultsLeft = MaxFaults
    /\ formData = [c \in Clients |-> [name |-> "N", email |-> "a@lab"]]

DeleteNext ==
    \/ \E r \in reservations : deleteReservation_fetch(r)
    \/ deleteReservation_delete
    \/ deleteReservation_reset
    \/ \E r \in reservations : updateReservationStatus(r)

SpecDelete == DeleteInit /\ [][DeleteNext]_vars

\* The calendar of client c1 with its subscription: it starts from the list a
\* fetch returned, and the administrator changes table slots.
RealtimeInit ==
    /\ PageFresh /\ HistInit /\ StoreInit
    /\ slots \in {[InitSlots EXCEPT !["s1"].is_available = a,
                                    !["s2"].is_available = b /\ e, !["s2"].exists = e] :
                     a \in BOOLEAN, b \in BOOLEAN, e \in BOOLEAN}
    /\ reservations = {} /\ users = {} /\ nextResId = 1
    /\ adminConfigured = TRUE
    /\ schema = "init.sql"
    /\ anonAccess = "rls"
    /\ faultsLeft = 0
    /\ formData = [c \in Clients |-> [name |-> "N", email |-> "a@lab"]]
    /\ \E startDate \in QueryTimes, endDate \in QueryTimes :
         /\ startDate <= endDate
         /\ calendarSlots =
              [c \in Clients |->
                  [startDate |-> startDate, endDate |-> endDate,
                   rows |-> getAvailableSlots(startDate, endDate, TRUE).data]]

RealtimeNext ==
    \/ \E s \in SlotIds, v \in BOOLEAN : postgres_changes_UPDATE(s, v)
    \/ \E s \in SlotIds : postgres_changes_INSERT(s)
    \/ \E s \in SlotIds : postgres_changes_DELETE(s)
    \/ Calendar_onSlotChange("c1")

SpecRealtime == RealtimeInit /\ [][RealtimeNext]_vars

\* The calendar of client c1 from its mount on: its fetches are answered and
\* received at any time between the changes of table slots and the deliveries
\* of their payloads.
CalendarInit ==
    /\ PageInit /\ HistInit /\ StoreInit
    /\ slots \in {[InitSlots EXCEPT !["s2"].is_available = e, !["s2"].exists = e] :
                     e \in BOOLEAN}
    /\ reservations = {} /\ users = {} /\ nextResId = 1
    /\ adminConfigured = TRUE
    /\ schema = "init.sql"
    /\ anonAccess = "rls"
    /\ faultsLeft \in {0, MaxFaults}
    /\ formData = [c \in Clients |-> [name |-> "N", email |-> "a@lab"]]

CalendarNext ==
    \/ \E endDate \in {3 * HourMs, 4 * HourMs} : Calendar_fetchSlots("c1", 0, endDate)
    \/ Calendar_fetchSlots_done("c1")
    \/ \E s \in SlotIds, v \in BOOLEAN : postgres_changes_UPDATE(s, v)
    \/ \E s \in SlotIds : postgres_changes_INSERT(s)
    \/ \E s \in SlotIds : postgres_changes_DELETE(s)
    \/ Calendar_onSlotChange("c1")

SpecCalendar == CalendarInit /\ [][CalendarNext]_vars

\* One booking page whose user clicks Confirm Booking again while a
\* submission is running.
DoubleInit == RaceInit

DoubleNext ==
    \/ PageNext("c1")
    \/ ConfirmBooking_click("c1")

SpecDouble == DoubleInit /\ [][DoubleNext]_vars

\* Two booking pages (two tabs or two devices) filled in with the same e-mail
\* address, submitting concurrently.
SameEmailInit ==
    /\ DbInit /\ PageInit /\ HistInit /\ StoreInit
    /\ adminConfigured = TRUE
    /\ schema \in {"init.sql", "schema.sql"}
    /\ anonAccess = "rls"
    /\ faultsLeft = 0
    /\ formData = [c \in Clients |-> [name |-> "N", email |-> "a@lab"]]

SameEmailNext == \E c \in Clients : SubmitNext(c)

SpecSameEmail == SameEmailInit /\ [][SameEmailNext]_vars

(***************************************************************************)
(* The Security tab of the administrator (components/Tabs.jsx, lines       *)
(* 90-125): "Clear Rate Limit" calls clearRateLimit of the rate-limiter    *)
(* module loaded by the page that shows the tab.                           *)
(***************************************************************************)
\* userEmail.includes('@')
IncludesAt(userEmail) == userEmail \in {"a@lab", "b@lab"}

\* The page load whose attemptStore the tab's clearRateLimit call reaches.
ClearTarget == adminTab

\* handleClearRateLimit: rejects an address without '@', otherwise clears the
\* entry of userEmail in the attemptStore of the page load showing the tab.
handleClearRateLimit(userEmail) ==
    /\ IF ~IncludesAt(userEmail)
       THEN UNCHANGED <<attemptStore, adminAttemptStore, recorded, lastCall>>
       ELSE /\ lastCall' = [op |-> "clear", id |-> userEmail, at |-> now,
                            limited |-> FALSE]
            /\ IF ClearTarget \in Clients
               THEN /\ attemptStore' = [attemptStore EXCEPT
                           ![ClearTarget] = StoreAfterClear(@, userEmail)]
                    /\ recorded' = IF ClearTarget = RatePage
                                   THEN [recorded EXCEPT ![userEmail] = <<>>]
                                   ELSE recorded
                    /\ UNCHANGED adminAttemptStore
               ELSE /\ adminAttemptStore' = StoreAfterClear(adminAttemptStore, userEmail)
                    /\ UNCHANGED <<attemptStore, recorded>>
    /\ UNCHANGED <<now, adminTab>>
    /\ UNCHANGED <<dbVars, cfgVars, faultsLeft, histVars, pageCore, challenge,
                   lastVerify, notSec>>

\* A user booking on page RatePage while an administrator uses the Security
\* tab, opened in a browser of the administrator or in the user's page load.
SecurityInit ==
    /\ DbInit /\ PageInit /\ HistCore /\ RefFixed /\ ZoneFixed /\ StoreInit
    /\ adminTab \in {OwnTab, RatePage}
    /\ adminConfigured = TRUE
    /\ schema = "init.sql"
    /\ anonAccess = "rls"
    /\ faultsLeft = 0
    /\ formData = [c \in Clients |-> [name |-> "N", email |-> "a@lab"]]

SecurityNext ==
    \/ \E i \in Identifiers : checkRateLimit(i)
    \/ \E i \in Identifiers : recordAttempt(i)
    \/ \E e \in Identifiers : handleClearRateLimit(e)
    \/ Tick

SpecSecurity == SecurityInit /\ [][SecurityNext]_vars

(***************************************************************************)
(* isSlotDisabled (lib/calendarUtils.js, lines 25-44) called at arbitrary  *)
(* times for arbitrary start times, in browsers of several time zones.     *)
(***************************************************************************)
MaxQuarters == 12       \* quarters of an hour the times range over

QuarterMs == HourMs \div 4
LeadTimes == {q * QuarterMs : q \in 0..MaxQuarters}

\* Local time minus UTC, modulo one hour: whole-hour zones, +05:30, +05:45.
Offsets == {0, 2 * QuarterMs, 3 * QuarterMs}

isSlotDisabled_call(startTime) ==
    /\ lastDisabled' = [called |-> TRUE, startTime |-> startTime, at |-> now,
                        result |-> isSlotDisabled(startTime, now)]
    /\ UNCHANGED tzOffset
    /\ UNCHANGED <<bookingVars, notLead>>

\* Date.now() advances by a quarter of an hour.
TickQuarter ==
    /\ now + QuarterMs \in LeadTimes
    /\ now' = now + QuarterMs
    /\ UNCHANGED <<attemptStore, lastCall, recorded>>
    /\ UNCHANGED <<dbVars, cfgVars, faultsLeft, pageVars, histVars>>

LeadInit ==
    /\ DbInit /\ PageInit /\ HistCore /\ RefFixed /\ TabFixed /\ StoreInit
    /\ tzOffset \in Offsets
    /\ adminConfigured = TRUE
    /\ schema = "init.sql"
    /\ anonAccess = "rls"
    /\ faultsLeft = 0
    /\ formData = [c \in Clients |-> [name |-> "N", email |-> "a@lab"]]

LeadNext ==
    \/ \E startTime \in LeadTimes : isSlotDisabled_call(startTime)
    \/ TickQuarter

SpecLead == LeadInit /\ [][LeadNext]_vars

(***************************************************************************)
(* Quick booking: handleQuickBook of the home page (SlotSelector.jsx lines  *)
(* 110-160) stores the closest available slot in sessionStorage and opens   *)
(* /book?quick=true, whose effect (BookingPage.jsx lines 55-90) selects it. *)
(***************************************************************************)
\* futureDate.setMonth(futureDate.getMonth() + 1), in hours for the shortest
\* month; no slot of the model starts that late.
MonthHours == 28 * 24

\* The rows the query of getClosestAvailableSlot matches at time t
\* (lib/supabase.js lines 281-287).
ClosestCandidates(t) ==
    {s \in SlotIds : /\ slots[s].exists /\ slots[s].is_available
                     /\ slots[s].start_time >= t
                     /\ (slots[s].start_time - t) \div HourMs <= MonthHours}

\* getClosestAvailableSlot (lines 276-292): .order('start_time').limit(1).
getClosestAvailableSlot(t) ==
    IF ClosestCandidates(t) = {} THEN Null
    ELSE CHOOSE s \in ClosestCandidates(t) :
            \A o \in ClosestCandidates(t) :
                slots[s].start_time <= slots[o].start_time

\* handleQuickBook, clicked on the home page while no booking is under way:
\* checkSlotsExist and getClosestAvailableSlot read slots with the anonymous
\* client; an error goes to the catch block and nothing is stored. When no
\* slot is found the visitor declines the offer to create test slots.
handleQuickBook(c) ==
    /\ pc[c] = "idle" /\ selectedSlot[c] = Null /\ ~submitSuccess[c]
    /\ \E ok \in Answers :
         LET slot == getClosestAvailableSlot(now)
         IN  /\ Fault(ok)
             /\ IF ok /\ anonAccess = "rls" /\ slot # Null
                THEN /\ quickBookSlot' = [quickBookSlot EXCEPT ![c] = slot]
                     /\ submitError' = [submitError EXCEPT ![c] = Null]
                ELSE UNCHANGED <<quickBookSlot, submitError>>
    /\ UNCHANGED <<pc, selectedSlot, runSlot, submitting, submitSuccess,
                   confirmedBooking, isHumanVerified, hvVerified, formData,
                   calendarSlots, emailState>>
    /\ UNCHANGED <<challenge, lastVerify, notBook, callStore, bookingRef>>
    /\ UNCHANGED <<dbVars, cfgVars, rateVars, histVars>>

\* The quick book effect of the booking page (lines 55-90), with the answer of
\* verifySlotAvailability.
BookingPage_quickBook(c) ==
    /\ quickBookSlot[c] # Null
    /\ quickBookSlot' = [quickBookSlot EXCEPT ![c] = Null]
    /\ \E ok \in Answers :
         LET isAvailable == verifySlotAvailability(quickBookSlot[c], ok)
         IN  /\ Fault(ok)
             /\ IF isAvailable = "true"
                THEN /\ selectedSlot' = [selectedSlot EXCEPT ![c] = quickBookSlot[c]]
                     /\ UNCHANGED submitError
                ELSE /\ submitError' = [submitError EXCEPT ![c] =
                            IF isAvailable = "false" THEN "quickSlotUnavailable"
                            ELSE "verifyError"]
                     /\ UNCHANGED selectedSlot
    /\ UNCHANGED <<pc, runSlot, submitting, submitSuccess, confirmedBooking,
                   isHumanVerified, hvVerified, formData, calendarSlots, emailState>>
    /\ UNCHANGED <<challenge, lastVerify, notBook, callStore, bookingRef>>
    /\ UNCHANGED <<dbVars, cfgVars, rateVars, histVars>>

\* One booking page reached from the calendar and from the home page's quick
\* booking, while the administrator changes slots and time passes.
QuickInit ==
    /\ DbInit /\ PageInit /\ HistInit /\ StoreInit
    /\ adminConfigured = TRUE
    /\ schema = "init.sql"
    /\ anonAccess \in {"rls", "denied"}
    /\ faultsLeft \in {0, MaxFaults}
    /\ formData = [c \in Clients |-> [name |-> "N", email |-> "a@lab"]]

QuickNext ==
    \/ handleQuickBook("c1")
    \/ BookingPage_quickBook("c1")
    \/ \E s \in SlotIds : handleSlotSelect("c1", s)
    \/ handleCancelBooking("c1")
    \/ \E s \in SlotIds, v \in BOOLEAN : updateSlot(s, v)
    \/ Tick

SpecQuick == QuickInit /\ [][QuickNext]_vars

(***************************************************************************)
(* The administrator's page from its first load on, no password set yet.   *)
(***************************************************************************)
MaxAdminSteps == 3      \* clock ticks explored on the administrator's page

\* Time passes in the administrator's browser.
TickAdmin ==
    /\ now + TimeStep <= MaxAdminSteps * TimeStep
    /\ now' = now + TimeStep
    /\ UNCHANGED <<attemptStore, lastCall, recorded>>
    /\ UNCHANGED <<dbVars, cfgVars, faultsLeft, pageVars, histVars>>

ConsoleInit ==
    /\ DbInit /\ PageInit /\ StoreInit
    /\ HistCore /\ RefFixed /\ TabFixed /\ ZoneFixed
    /\ adminConfigured \in BOOLEAN
    /\ schema = "init.sql"
    /\ anonAccess = "rls"
    /\ faultsLeft \in {0, MaxFaults}
    /\ formData = [c \in Clients |-> [name |-> "N", email |-> "a@lab"]]

ConsoleNext ==
    \/ AdminPage_mount
    \/ AdminPage_checkAuth
    \/ \E password, confirmPassword \in SetupPasswords :
          handleSetupSubmit(password, confirmPassword)
    \/ setupAdminPassword_update
    \/ loginAdmin_select
    \/ handleSetupSubmit_login
    \/ \E password \in SetupPasswords : handleLoginSubmit(password)
    \/ handleLogout
    \/ isAdminAuthenticated
    \/ TickAdmin

SpecConsole == ConsoleInit /\ [][ConsoleNext]_vars

\* The calendar's query, over every content of table slots.
QueryInit ==
    /\ PageInit /\ HistInit /\ StoreInit
    /\ slots \in {[InitSlots EXCEPT !["s1"].is_available = a, !["s2"].is_available = b] :
                     a \in BOOLEAN, b \in BOOLEAN}
    /\ reservations = {} /\ users = {} /\ nextResId = 1
    /\ adminConfigured \in BOOLEAN
    /\ schema = "init.sql"
    /\ anonAccess \in {"rls", "denied"}
    /\ faultsLeft = MaxFaults
    /\ formData = [c \in Clients |-> [name |-> "N", email |-> "a@lab"]]

QueryNext ==
    \/ \E startDate \in QueryTimes, endDate \in QueryTimes :
          fetchSlots("c1", startDate, endDate)
    \/ \E s \in SlotIds, v \in BOOLEAN : updateSlot(s, v)

SpecQuery == QueryInit /\ [][QueryNext]_vars

(***************************************************************************)
(* Properties of the rate limiter (specification SpecRate).                *)
(***************************************************************************)
\* The attempts recorded for the identifier in the hour before time t.
RecentCount(identifier, t) ==
    Len(FilterSeq(recorded[identifier], t, RATE_LIMIT_WINDOW))

\* C4: whenever MAX_ATTEMPTS (5) attempts were recorded for an identifier within
\* the hour preceding a checkRateLimit call, the call returns limited = true.
C4_RollingWindowLimits ==
    (/\ lastCall.op = "check"
     /\ ~Falsy(lastCall.id)
     /\ RecentCount(lastCall.id, lastCall.at) >= MAX_ATTEMPTS)
    => lastCall.limited

\* C5: a recordAttempt, checkRateLimit or clearRateLimit call on identifier a
\* changes neither the stored attempts of any other identifier b nor what
\* checkRateLimit(b) answers.
C5_PerIdentifier ==
    [][\A b \in Identifiers :
         (now' = now /\ lastCall'.id # b)
         => /\ attemptStore'[RatePage][b] = attemptStore[RatePage][b]
            /\ IsLimited(attemptStore'[RatePage], b, now')
                 = IsLimited(attemptStore[RatePage], b, now)]_vars

\* C5, its case: a is limited by its own five attempts, recorded last, while b
\* holds an attempt of its own and is not limited.
C5_Witness ==
    /\ lastCall.op = "record" /\ lastCall.id = "a@lab"
    /\ IsLimited(attemptStore[RatePage], "a@lab", now)
    /\ Len(attemptStore[RatePage]["b@lab"].attempts) = 1
    /\ ~IsLimited(attemptStore[RatePage], "b@lab", now)

(***************************************************************************)
(* Properties of the bookings (specifications SpecRace and Spec).          *)
(***************************************************************************)
\* C1: whatever the interleaving of the clients' booking submissions, no slot
\* ever has more than one active reservation.
C1_AtMostOneActive ==
    \A s \in SlotIds : Cardinality(ActiveOn(s)) <= 1

\* C2: in every reachable state, the slot of every active reservation has
\* is_available = false, the states between two backend calls included.
C2_ActiveSlotUnavailable ==
    \A r \in ActiveReservations : ~slots[r.slot_id].is_available

\* C3: when a cancellation completes (cancelReservation by the user, or
\* updateReservationStatus to 'cancelled' by the administrator), the slot the
\* reservation held has is_available = true.
C3_CancelFreesSlot ==
    [][lastCancel' # lastCancel => slots'[lastCancel'.slot].is_available]_vars

\* C6: when verifySlotAvailability answers false to a running submission, the
\* submission ends there: the error is shown, selectedSlot is null, submitting is
\* false, and no row is written to users or reservations, by no insert issued.
C6_UnavailableRejected ==
    [][\A c \in Clients :
         (/\ pc[c] = "verify" /\ pc'[c] # "verify"
          /\ faultsLeft' = faultsLeft
          /\ verifySlotAvailability(runSlot[c], TRUE) = "false")
         => /\ pc'[c] = "idle"
            /\ submitError'[c] = "slotTaken"
            /\ selectedSlot'[c] = Null
            /\ ~submitting'[c]
            /\ users' = users /\ reservations' = reservations
            /\ inserts'[c] = 0]_vars

\* C6, its case: a submission was rejected because its slot had been taken, and
\* the page has no selection, is not submitting and shows the message.
C6_Witness ==
    /\ lastSubmit["c1"] = "slotTaken" /\ submitError["c1"] = "slotTaken"
    /\ runSlot["c1"] # Null /\ ~slots[runSlot["c1"]].is_available
    /\ selectedSlot["c1"] = Null /\ ~submitting["c1"]
    /\ reservations = {} /\ users = {}

\* C8: once createReservation has returned the reservation, the page is in the
\* confirmed state (submitSuccess, confirmedBooking set), and no outcome of the
\* confirmation e-mail changes submitError, submitSuccess or confirmedBooking.
C8_EmailNeverBlocks ==
    /\ [](\A c \in Clients :
            created[c] => submitSuccess[c] /\ confirmedBooking[c] # Null)
    /\ [][\A c \in Clients :
            emailState'[c] # emailState[c] /\ emailState[c] = "pending"
            => /\ submitError'[c] = submitError[c]
               /\ submitSuccess'[c] = submitSuccess[c]
               /\ confirmedBooking'[c] = confirmedBooking[c]]_vars

\* C8, its case: the reservation was created, its e-mail failed, and the page
\* shows the confirmation without an error.
C8_Witness ==
    /\ created["c1"] /\ emailState["c1"] \in {"failed", "rejected", "delayed"}
    /\ submitSuccess["c1"] /\ confirmedBooking["c1"] # Null
    /\ submitError["c1"] = Null

\* C9 as stated: without the service key, every booking submission ends with the
\* configuration-error message.
C9_EverySubmissionConfigError ==
    ~adminConfigured => \A c \in Clients : lastSubmit[c] \in {"none", "config"}

\* C9, amended: without the service key, a submission that passed the page's own
\* checks and the availability check (it reached registerUser) ends with the
\* configuration-error message, and no submission, however it ends, writes a
\* row to reservations or users or changes a slot.
C9_ConfigErrorNoWrites ==
    /\ [](~adminConfigured =>
            /\ reservations = {} /\ users = {} /\ slots = InitSlots
            /\ \A c \in Clients : inserts[c] = 0 /\ ~submitSuccess[c])
    /\ [][\A c \in Clients :
            (~adminConfigured /\ pc[c] = "register" /\ pc'[c] # "register")
            => /\ pc'[c] = "idle" /\ ~submitting'[c]
               /\ submitError'[c] = "config" /\ lastSubmit'[c] = "config"]_vars

\* C9, its case: without the service key a submission got as far as
\* registerUser and ended with the configuration-error message.
C9_Witness ==
    /\ ~adminConfigured
    /\ lastSubmit["c1"] = "config" /\ submitError["c1"] = "config"
    /\ ~submitting["c1"] /\ runs["c1"] > 0
    /\ reservations = {} /\ users = {}

\* C7: the rows getAvailableSlots returned, for whatever date range and content
\* of table slots, all have is_available = true.
C7_OnlyAvailableReturned ==
    \A c \in Clients :
        \A i \in 1..Len(calendarSlots[c].rows) : calendarSlots[c].rows[i].is_available

\* C10: a booking submission issues at most one insert into reservations.
C10_AtMostOneInsert ==
    \A c \in Clients : inserts[c] <= 1

(***************************************************************************)
(* Properties of the human verification (specification SpecChallenge).     *)
(***************************************************************************)
\* C11: verifyChallenge returns success only when at most five minutes lie
\* between the challenge's timestamp and the verification, and it rejects a
\* correct answer given later as expired.
C11_ChallengeExpires ==
    lastVerify.by # "none" =>
        /\ lastVerify.success => lastVerify.at - lastVerify.timestamp <= fiveMinutes
        /\ (lastVerify.correct /\ lastVerify.at - lastVerify.timestamp > fiveMinutes)
           => ~lastVerify.success /\ lastVerify.error = "expired"

\* C11, its case: a correct answer, given more than five minutes after the
\* challenge was generated, was rejected as expired.
C11_Witness ==
    /\ lastVerify.by = "c1" /\ lastVerify.correct
    /\ lastVerify.at - lastVerify.timestamp > fiveMinutes
    /\ ~lastVerify.success /\ lastVerify.error = "expired"
    /\ ~isHumanVerified["c1"]

(***************************************************************************)
(* Properties of the administrator's login (specification SpecAdmin).      *)
(***************************************************************************)
\* The last loginAdmin call was made with the password whose hash is the
\* non-empty hash the settings row held, through the privileged client.
LoginMatched(login) ==
    /\ login.configured
    /\ ~login.stored.empty
    /\ hashPassword(login.password) = login.stored.hash

\* C12: loginAdmin returns success, and writes the token to local storage, only
\* when the hash of the password equals the non-empty stored hash; in every
\* other outcome it returns a failure and local storage is left as it was.
C12_LoginOnlyOnMatch ==
    /\ [](lastLogin.success => LoginMatched(lastLogin))
    /\ [][(adminToken' # adminToken /\ adminToken' # NoToken)
            => lastLogin'.success /\ LoginMatched(lastLogin')]_vars
    /\ [][(lastLogin' # lastLogin /\ ~lastLogin'.success)
            => adminToken' = adminToken]_vars

\* C12, its case: a login with the right password succeeded and its token is in
\* local storage.
C12_Witness ==
    /\ lastLogin.by = "admin" /\ lastLogin.success
    /\ Len(lastLogin.password) = MaxPasswordLen
    /\ adminToken = AdminTokenAt(now)


(***************************************************************************)
(* Properties of the booking reference (specification SpecReference).      *)
(***************************************************************************)
DigitChars == {"0", "1", "2", "3", "4", "5", "6", "7", "8", "9"}
UpperChars ==
    {"A", "B", "C", "D", "E", "F", "G", "H", "I", "J", "K", "L", "M",
     "N", "O", "P", "Q", "R", "S", "T", "U", "V", "W", "X", "Y", "Z"}

\* The number a digit character stands for, and the number a string of digits reads as.
DigitValue(ch) == CHOOSE n \in 0..9 : charAt(characters, 26 + n) = <<ch>>
RECURSIVE ReadNumber(_)
ReadNumber(str) ==
    IF str = <<>> THEN 0
    ELSE 10 * ReadNumber(SubSeq(str, 1, Len(str) - 1)) + DigitValue(str[Len(str)])

\* C13: every value generateBookingReference returns is 'ADR-', the local date
\* as a 4-digit year, a 2-digit month and a 2-digit day, a hyphen, and exactly
\* four characters out of A-Z and 0-9.
C13_ReferenceFormat ==
    lastReference # NoReference =>
        LET v == lastReference.value
            d == lastReference.date
        IN  /\ Len(v) = 17
            /\ SubSeq(v, 1, 4) = <<"A", "D", "R", "-">>
            /\ \A i \in 5..12 : v[i] \in DigitChars
            /\ ReadNumber(SubSeq(v, 5, 8)) = d.year
            /\ ReadNumber(SubSeq(v, 9, 10)) = d.month + 1
            /\ ReadNumber(SubSeq(v, 11, 12)) = d.date
            /\ v[13] = "-"
            /\ \A i \in 14..17 : v[i] \in UpperChars \cup DigitChars

\* C13, its case: a reference generated on a day and in a month of one digit,
\* with a letter and a digit in its suffix.
C13_Witness ==
    /\ lastReference.date = [year |-> LastYear, month |-> 1, date |-> 9]
    /\ lastReference.value =
         <<"A", "D", "R", "-", "2", "0", "2", "6", "0", "2", "0", "9", "-", "Z", "0", "A", "9">>


(***************************************************************************)
(* Properties of the administrator's delete (specification SpecDelete).    *)
(***************************************************************************)
\* C14: when deleteReservation returns, the reservation row is gone and its
\* slot is available; the slot is reset only after the row was deleted; and a
\* call that fails at any step does not leave the row gone with its slot
\* unavailable.
C14_DeleteResetsSlot ==
    /\ [][lastDelete' # lastDelete =>
            LET gone == \A r \in reservations' : r.id # lastDelete'.id
                free == slots'[lastDelete'.slot].is_available
            IN  /\ lastDelete'.outcome = "ok" => gone /\ free
                /\ lastDelete'.outcome = "threw" => ~(gone /\ ~free)]_vars
    /\ [][(deletePc.step # "idle" /\ slots' # slots) =>
            \A r \in reservations : r.id # deletePc.res.id]_vars


(***************************************************************************)
(* Properties of the realtime subscription (specification SpecRealtime).   *)
(***************************************************************************)
\* The rows of the calendar's list for slot s.
RowsOf(c, s) ==
    {i \in DOMAIN calendarSlots[c].rows : calendarSlots[c].rows[i].id = s}

\* The slot lies in the date range the calendar fetched its list for.
InFetchedRange(c, s) ==
    /\ slots[s].start_time >= calendarSlots[c].startDate
    /\ slots[s].end_time <= calendarSlots[c].endDate

\* C15: the calendar, starting from a fetched list, applies the payloads in the
\* order of their delivery, and its list then agrees with table slots: a slot
\* updated carries the new field values (it is in the list when the update made
\* a slot of the fetched range available), a slot inserted is in the list, a
\* slot deleted is not; and once every payload is applied no row of the list
\* contradicts the table.
C15_CalendarFollowsBackend ==
    /\ [][channel # <<>> /\ channel' = Tail(channel) =>
            LET p == Head(channel)
                rows == calendarSlots'["c1"].rows
                at == {i \in DOMAIN rows : rows[i].id = p.id}
            IN  /\ p.eventType = "DELETE" => at = {}
                /\ p.eventType = "INSERT" => at # {}
                /\ p.eventType # "DELETE" =>
                      \A i \in at : rows[i].is_available = p.is_available
                /\ (p.eventType = "UPDATE" /\ p.is_available /\ InFetchedRange("c1", p.id))
                      => at # {}]_vars
    /\ [](channel = <<>> =>
            \A s \in SlotIds :
                /\ ~slots[s].exists => RowsOf("c1", s) = {}
                /\ \A i \in RowsOf("c1", s) :
                      calendarSlots["c1"].rows[i].is_available = slots[s].is_available)


VerifiedOnlyBySuccess ==
    [][\A c \in Clients :
         (isHumanVerified'[c] /\ ~isHumanVerified[c]) =>
             /\ lastVerify'.by = c /\ lastVerify'.success
             /\ lastVerify'.at = now
             /\ lastVerify'.timestamp = challenge[c].timestamp]_vars

\* C17, as stated: createReservation's insert is issued only while
\* isHumanVerified is true, and isHumanVerified becomes true only through a
\* verifyChallenge call that returned success.
C17_InsertOnlyWhileVerified ==
    /\ [][\A c \in Clients : inserts'[c] > inserts[c] => isHumanVerified[c]]_vars
    /\ VerifiedOnlyBySuccess

\* C17: a handleSubmit run goes past its checks, and so reaches
\* createReservation, only if isHumanVerified was true when the run read it at
\* the click; and isHumanVerified becomes true only through a verifyChallenge
\* call that returned success.
C17_VerifiedBeforeReservation ==
    /\ [][\A c \in Clients :
            (pc[c] = "idle" /\ pc'[c] # "idle") => isHumanVerified[c]]_vars
    /\ [][\A c \in Clients : inserts'[c] > inserts[c] => pc[c] = "insert"]_vars
    /\ VerifiedOnlyBySuccess

\* C17, its case: the page has created a reservation after the user answered
\* the challenge.
C17_Witness ==
    /\ created["c1"] /\ isHumanVerified["c1"]
    /\ lastVerify.by = "c1" /\ lastVerify.success
    /\ \E r \in reservations : r.user_email = formData["c1"].email


(***************************************************************************)
(* Properties of the reservation limit (specification SpecSameEmail).      *)
(***************************************************************************)
\* The active reservations of an e-mail address.
ActiveOf(email) == {r \in ActiveReservations : r.user_email = email}

\* C18: under every interleaving of booking submissions, from one or several
\* pages, no e-mail address has more than one active reservation.
C18_OneActivePerEmail ==
    \A c \in Clients : Cardinality(ActiveOf(formData[c].email)) <= 1


(***************************************************************************)
(* Properties of the Security tab (specification SpecSecurity).            *)
(***************************************************************************)
\* C19: after an administrator clears the rate limit of an e-mail address in
\* the Security tab, the next checkRateLimit for that address on the user's
\* booking page returns limited = false.
C19_ClearUnblocksUser ==
    [][(lastCall.op = "clear" /\ lastCall'.op = "check" /\ lastCall'.id = lastCall.id)
          => ~lastCall'.limited]_vars


(***************************************************************************)
(* Properties of isSlotDisabled (specification SpecLead).                  *)
(***************************************************************************)
\* x is on a whole hour of the browser's local time.
OnLocalHour(x) == (x + tzOffset) % HourMs = 0

\* C20: for every current time and every start time, isSlotDisabled returns
\* true exactly when startTime is at most 60 minutes after the current time.
C20_DisabledExactlyWithinHour ==
    lastDisabled.called =>
        (lastDisabled.result <=> lastDisabled.startTime <= lastDisabled.at + HourMs)

\* What isSlotDisabled does guarantee: it returns true only for a start time at
\* most 60 minutes after the current time, and always for a start time that is
\* not after the current time; when the start time or the current time is on a
\* whole hour of the local time, it returns true exactly when startTime is at
\* most 60 minutes after the current time.
DisabledBounds ==
    lastDisabled.called =>
        /\ lastDisabled.result => lastDisabled.startTime <= lastDisabled.at + HourMs
        /\ lastDisabled.startTime <= lastDisabled.at => lastDisabled.result
        /\ (OnLocalHour(lastDisabled.startTime) \/ OnLocalHour(lastDisabled.at))
              => (lastDisabled.result <=>
                     lastDisabled.startTime <= lastDisabled.at + HourMs)


(***************************************************************************)
(* Properties of the administrator's page (specification SpecConsole).     *)
(***************************************************************************)
\* C21: in a first-time setup with two matching passwords of at least 8
\* characters, and with no backend call failing, the automatic login that
\* follows succeeds, whichever of the two requests the backend completes first.
C21_AutoLoginSucceeds ==
    (/\ lastLogin.by = "setup" /\ lastLogin.configured
     /\ setupRun.pc = "idle" /\ setupRun.before.empty
     /\ faultsLeft = setupRun.faults
     /\ lastLogin.message # "authError")
        => lastLogin.success

\* C22: isAdminAuthenticated returns true only for a stored token that
\* verifies and was issued by a loginAdmin at most one hour before the call;
\* and a call that returns false for a stored token leaves local storage
\* without that token.
C22_TokenShortLived ==
    /\ [](lastAuth.called /\ lastAuth.result =>
             /\ lastAuth.stored # NoToken
             /\ lastAuth.stored.role = "admin"
             /\ jwtVerify(lastAuth.stored, lastAuth.at)
             /\ lastAuth.stored.iat <= lastAuth.at
             /\ lastAuth.at - lastAuth.stored.iat <= HourMs)
    /\ [][(lastAuth' # lastAuth /\ lastAuth'.stored # NoToken /\ ~lastAuth'.result)
             => adminToken' = NoToken]_vars

\* A token that was in local storage for an hour: the call returned false and
\* the token is gone.
C22_Witness ==
    /\ lastAuth.called /\ ~lastAuth.result
    /\ lastAuth.stored.role = "admin"
    /\ lastAuth.at - lastAuth.stored.iat >= HourMs
    /\ adminToken = NoToken

\* C23: a page load that finds a non-empty hash stored does not end on the
\* first-time setup form, and a stored hash is replaced only in a browser that
\* holds the token of a successful login.
C23_NoSetupOnceStored ==
    /\ [][(adminPage.isCheckingAuth /\ ~adminPage'.isCheckingAuth /\ ~settings.empty)
             => Shown' # "setup"]_vars
    /\ [][(~settings.empty /\ settings'.hash # settings.hash)
             => adminToken # NoToken]_vars

(***************************************************************************)
(* Properties of a createReservation call.                                 *)
(***************************************************************************)
\* C24: when a createReservation call ends by throwing, the store is as the
\* call found it: it holds no reservation row the call inserted, and the
\* slot's is_available flag has the value it had when the call started.
C24_FailedCallLeavesStore ==
    [][\A c \in Clients :
         (callStore[c].active /\ ~callStore'[c].active /\ ~submitSuccess'[c])
            => /\ \A r \in reservations' : r.id < callStore[c].nextId
               /\ slots'[runSlot[c]].is_available = callStore[c].free]_vars

\* C27: after a successful booking, the reference of the confirmation screen,
\* the reference given to the confirmation e-mail and the reference held by
\* the reservation row are one value.
C27_SameReference ==
    \A c \in Clients :
        submitSuccess[c] =>
            /\ bookingRef[c].shown = bookingRef[c].stored
            /\ bookingRef[c].emailed = bookingRef[c].stored

(***************************************************************************)
(* Properties of the selection of a slot (specification SpecQuick).        *)
(***************************************************************************)
\* C25: whenever selectedSlot is set to a slot, that slot is at that moment
\* not disabled (isSlotDisabled is false of its start time) and
\* verifySlotAvailability can report it available.
C25_SelectedWasSelectable ==
    [][\A c \in Clients :
         (selectedSlot'[c] # selectedSlot[c] /\ selectedSlot'[c] # Null)
            => /\ ~isSlotDisabled(slots[selectedSlot'[c]].start_time, now)
               /\ \E ok \in BOOLEAN :
                     verifySlotAvailability(selectedSlot'[c], ok) = "true"]_vars

(***************************************************************************)
(* Properties of the calendar's list (specification SpecCalendar).         *)
(***************************************************************************)
\* C26: the calendar's list never holds two rows with one slot id; and once
\* every published change has been delivered and no fetch is under way, it
\* shows no slot as available that the table has as unavailable.
C26_CalendarListConsistent ==
    LET rows == calendarSlots["c1"].rows
    IN  /\ \A i, j \in DOMAIN rows : rows[i].id = rows[j].id => i = j
        /\ (channel = <<>> /\ pendingFetch["c1"] = {})
              => \A i \in DOMAIN rows :
                    rows[i].is_available => slots[rows[i].id].is_available

====
